---------------------------- MODULE Spec2Model ----------------------------
(***************************************************************************)
(* A model of the ServerGem deployment pipeline:                           *)
(*   - RetryStrategy.execute            (services/gcloud_service.py)       *)
(*   - DeploymentProgressTracker        (services/deployment_progress.py)  *)
(*   - MonitoringService                (services/monitoring.py)           *)
(*   - OrchestratorAgent handlers       (agents/orchestrator.py)           *)
(*   - GCloudService.build_image        (services/gcloud_service.py)       *)
(*                                                                         *)
(* The handlers are modelled statement by statement, every name bound to   *)
(* the definition of that name in the repository (the import block of      *)
(* OrchestratorAgent.__init__, orchestrator.py:71-75, is taken to bind     *)
(* them).  Collaborators whose code is not in the repository               *)
(* (services.security, services.optimization) and the external processes   *)
(* (git, gcloud) answer nondeterministically.                              *)
(*                                                                         *)
(* Time is counted in clock ticks; the rational values the code keeps in   *)
(* floats (avg_deployment_time, error_rate) are kept as reduced fractions. *)
(***************************************************************************)
EXTENDS Integers, Sequences, FiniteSets, TLC

(***************************************************************************)
(* Bounds of the model.                                                    *)
(***************************************************************************)
\* build output lines read by build_image in one build of the pipeline
MaxLines == 1
\* build output lines read by build_image in the build specification
MaxBuildLines == 2
\* issues a security scan may report
MaxIssues == 4
\* largest max_retries a RetryStrategy is constructed with
MaxRetriesBound == 4
\* largest base_delay of a RetryStrategy
MaxBaseDelay == 2
\* deployments tracked by one MonitoringService in the metrics specification
MaxRuns == 2
\* last tick of the clock in the metrics specification
MaxTime == 1
\* MonitoringService calls in one behaviour of the metrics specification
MaxOps == 4
\* optimizations a generated Dockerfile may list
MaxOptimizations == 3
\* largest total_steps a caller passes to emit_build_step
MaxSteps == 3
\* helper calls made on one tracker in the helper specification
MaxHelperCalls == 2

VARIABLES
    \* ---- OrchestratorAgent, one function call being handled
    fn,          \* function_call.name routed by _handle_function_call
    pc,          \* the statement the handler is at
    sub,         \* index of the next emit inside the tracker helper at pc
    gcloud,      \* self.gcloud_service is set
    exc,         \* the exception the handler's except clause caught
    result,      \* 'type' of the dict the handler returned
    calls,       \* collaborator invocations of this run, with their outcome
    scan,        \* security_scan: [secure, issues]
    warned,      \* loop index of `for issue in security_scan['issues'][:3]`
    analysis,    \* analysis_result: [database, optimizations]
    build,       \* build_image's locals: [progress, lines, outcome]
    \* ---- DeploymentProgressTracker and its sink
    tracker,     \* [deployment_id, current_progress]
    sink,        \* progress_callback: absent, connected, disconnected, stalled
    emitted,     \* events handed to progress_callback, in call order
    delivered,   \* events progress_callback accepted
    lastEmit,    \* the last emit call: sink behaviour and how emit ended
    \* ---- MonitoringService
    monitoring,  \* [deployments, metrics]
    now,         \* time.time()
    ops,         \* MonitoringService calls made (metrics specification)
    audit,       \* per run id: start and complete calls seen, and the
                 \* record as its first complete call left it
    \* ---- paired runs: the same collaborator answers, another sink
    phase,       \* 1: first run, 2: second run replaying the answers
    tape,        \* collaborator answers of the first run, in order
    first,       \* outcome of the first run
    \* ---- RetryStrategy.execute
    retry,
    \* ---- the client's side of the websocket
    cancel_requested,  \* a cancellation request was sent during the run
    \* ---- the module-level objects of app.py, shared by every session
    project_context,     \* orchestrator.project_context: [framework]
    sessions,            \* per session id: what its handlers wrote and read
    active_connections,  \* session id -> the websocket registered under it
    connections          \* per websocket: where websocket_endpoint is

hvars == <<fn, pc, sub, gcloud, exc, result, calls, scan, warned, analysis, build>>
tvars == <<tracker, sink, emitted, delivered, lastEmit>>
mvars == <<monitoring, now, ops, audit>>
pvars == <<phase, tape, first>>
svars == <<project_context, sessions, active_connections, connections>>
vars == <<hvars, tvars, mvars, pvars, retry, cancel_requested, svars>>

\* ---------------------------------------------------------------------
\* app.py: the module-level orchestrator and connection table
\* ---------------------------------------------------------------------
MaxSessions == 2
MaxConnections == 2
MaxRequests == 2
MaxMessages == 1

SessionIds == 1..MaxSessions
ConnectionIds == 1..MaxConnections

\* analysis_result['analysis']['framework'] values
Frameworks == {"express", "django"}

\* self.project_context: Dict = {}
ProjectContextEmpty == [framework |-> "unset"]

\* what one session's handlers did: the framework its analysis stored, the
\* framework its deployment took from the context, the framework its own
\* analysis had stored by then, the requests it made
SessionIdle == [analysed |-> "unset", framework |-> "unset", own |-> "unset", requests |-> 0]

\* a websocket before the server accepted it.  session_id 0 is the local's
\* initial None; first is the type of the first message received; received
\* and processed count the loop's messages and the ones given to
\* orchestrator.process_message; registered tells whether the endpoint
\* stored this websocket in active_connections
ConnectionIdle ==
    [state |-> "none", session_id |-> 0, first |-> "none", received |-> 0,
     processed |-> 0, registered |-> FALSE]

\* active_connections: dict[str, WebSocket] = {}
NoConnections == [s \in {} |-> 0]

SocketsIdle ==
    /\ project_context = ProjectContextEmpty
    /\ sessions = [s \in SessionIds |-> SessionIdle]
    /\ active_connections = NoConnections
    /\ connections = [c \in ConnectionIds |-> ConnectionIdle]

None == -1

(***************************************************************************)
(* Fractions, for the values the code computes with float division.        *)
(***************************************************************************)
RECURSIVE GCD(_, _)
GCD(a, b) == IF b = 0 THEN a ELSE GCD(b, a % b)

Frac(n, d) == LET g == GCD(n, d) IN [n |-> n \div g, d |-> d \div g]

Zero == [n |-> 0, d |-> 1]

RECURSIVE SumSeq(_)
SumSeq(s) == IF s = <<>> THEN 0 ELSE Head(s) + SumSeq(Tail(s))

(***************************************************************************)
(* MonitoringService and DeploymentMetrics.  A stage entry keeps status    *)
(* and duration; `stages` is a dict, kept as the sequence of its items in  *)
(* insertion order.                                                        *)
(***************************************************************************)
DeploymentMetrics(now_) ==
    [start_time |-> now_, end_time |-> None, status |-> "in_progress",
     stages |-> <<>>, errors |-> <<>>]

MonitoringService ==
    [deployments |-> <<>>,
     metrics |-> [total_deployments |-> 0, successful_deployments |-> 0,
                  failed_deployments |-> 0, avg_deployment_time |-> Zero,
                  error_rate |-> Zero]]

\* a dict that puts a new key in front
DictSetPrepend(items, entry) ==
    IF \E i \in 1..Len(items) : items[i].stage = entry.stage
    THEN [i \in 1..Len(items) |->
             IF items[i].stage = entry.stage THEN entry ELSE items[i]]
    ELSE <<entry>> \o items

\* self.stages[stage] = {...}: a new key is appended, an existing key keeps
\* its place and takes the new value.
DictSet(items, entry) ==
    IF \E i \in 1..Len(items) : items[i].stage = entry.stage
    THEN [i \in 1..Len(items) |->
             IF items[i].stage = entry.stage THEN entry ELSE items[i]]
    ELSE Append(items, entry)

DeploymentMetrics_record_stage(self, stage, status, duration) ==
    [self EXCEPT !.stages =
        DictSet(@, [stage |-> stage, status |-> status, duration |-> duration])]

\* a complete() that stamps the end time and leaves the status alone
DeploymentMetrics_complete_unmarked(self, status, now_) ==
    [self EXCEPT !.end_time = now_]

DeploymentMetrics_complete(self, status, now_) ==
    [self EXCEPT !.end_time = now_, !.status = status]

get_duration(self, now_) ==
    (IF self.end_time # None THEN self.end_time ELSE now_) - self.start_time

start_deployment(mon, deployment_id, now_) ==
    [deployments |->
        [d \in DOMAIN mon.deployments \cup {deployment_id} |->
            IF d = deployment_id THEN DeploymentMetrics(now_)
            ELSE mon.deployments[d]],
     metrics |-> [mon.metrics EXCEPT !.total_deployments = @ + 1]]

record_stage(mon, deployment_id, stage, status, duration) ==
    IF deployment_id \in DOMAIN mon.deployments
    THEN [mon EXCEPT !.deployments[deployment_id] =
             DeploymentMetrics_record_stage(@, stage, status, duration)]
    ELSE mon

record_error(mon, deployment_id, error) ==
    IF deployment_id \in DOMAIN mon.deployments
    THEN [mon EXCEPT !.deployments[deployment_id].errors = Append(@, error)]
    ELSE mon

\* new_avg = ((current_avg * (total - 1)) + deployment.get_duration()) / total
RunningMean(current_avg, total, duration) ==
    Frac(current_avg.n * (total - 1) + duration * current_avg.d,
         current_avg.d * total)

\* a recorder that counts every completion as a failure
CountCompletionAsFailure(metrics, status) ==
    [metrics EXCEPT !.failed_deployments = @ + 1]

\* if status == "success": successful_deployments += 1
\* else: failed_deployments += 1
CountCompletion(metrics, status) ==
    IF status = "success"
    THEN [metrics EXCEPT !.successful_deployments = @ + 1]
    ELSE [metrics EXCEPT !.failed_deployments = @ + 1]

\* a recorder that counts a completion without looking the run up
complete_deployment_unguarded(mon, deployment_id, status, now_) ==
    [mon EXCEPT !.metrics = CountCompletion(@, status)]

complete_deployment(mon, deployment_id, status, now_) ==
    IF deployment_id \notin DOMAIN mon.deployments
    THEN mon
    ELSE LET deployment ==
                 DeploymentMetrics_complete(mon.deployments[deployment_id],
                                            status, now_)
             m1 == CountCompletion(mon.metrics, status)
             total == m1.total_deployments
             new_avg == RunningMean(m1.avg_deployment_time, total,
                                    get_duration(deployment, now_))
         IN  [deployments |->
                 [mon.deployments EXCEPT ![deployment_id] = deployment],
              metrics |->
                 [m1 EXCEPT !.avg_deployment_time = new_avg,
                            !.error_rate =
                                Frac(m1.failed_deployments,
                                     m1.total_deployments)]]

\* What the callers of start_deployment and complete_deployment did to a run
\* id: how often it was started, how often completed since its last start,
\* and the record the first of those completions left.
\* get_deployment_metrics: the record's to_dict(), or None
get_deployment_metrics(mon, deployment_id) ==
    IF deployment_id \in DOMAIN mon.deployments
    THEN mon.deployments[deployment_id]
    ELSE None

NoteStart(deployment_id) ==
    audit' = [d \in DOMAIN audit \cup {deployment_id} |->
                 IF d = deployment_id
                 THEN [started |-> IF d \in DOMAIN audit
                                   THEN audit[d].started + 1 ELSE 1,
                       completed |-> 0, frozen |-> <<>>]
                 ELSE audit[d]]

NoteComplete(deployment_id) ==
    audit' = IF deployment_id \in DOMAIN audit
             THEN [audit EXCEPT
                      ![deployment_id].completed = @ + 1,
                      ![deployment_id].frozen =
                          IF audit[deployment_id].completed = 0
                          THEN <<monitoring'.deployments[deployment_id]>>
                          ELSE @]
             ELSE audit


(***************************************************************************)
(* DeploymentProgressTracker.  A tracker helper is the sequence of emit    *)
(* calls it makes: each a stage and a progress value (None when the call   *)
(* passes no progress).                                                    *)
(***************************************************************************)
DeploymentProgressTracker(deployment_id) ==
    [deployment_id |-> deployment_id, current_progress |-> 0]

\* The arguments of one emit call.  Of the message only its kind is kept:
\* emit_error sends "[ERROR] {stage}: ...", emit_warning "[WARNING] ...".
E(stage, progress) ==
    [message |-> "info", stage |-> stage, progress |-> progress]

NoEvent ==
    [deployment_id |-> "none", message |-> "none", stage |-> "none",
     progress |-> None]

\* an emit without the try/except around the callback
CallbackOutcomeRaising(behaviour) ==
    CASE behaviour = "ok" -> "returned"
      [] behaviour = "raise" -> "raised"
      [] behaviour = "stall" -> "pending"

\* How `await self.progress_callback(...)` ends, by sink behaviour: "ok" returns,
\* "raise" raises an Exception, which emit's except clause swallows, "stall"
\* never returns.
CallbackOutcome(behaviour) ==
    CASE behaviour = "ok" -> "returned"
      [] behaviour = "raise" -> "returned"
      [] behaviour = "stall" -> "pending"

\* emit(message, stage, progress) with the sink behaving as `behaviour`
\* ("absent": progress_callback is None).
emit(self, message, stage, progress, behaviour) ==
    IF behaviour = "absent"
    THEN [tracker |-> self, sent |-> FALSE, event |-> NoEvent,
          outcome |-> "returned"]
    ELSE LET cp == IF progress # None THEN progress
                   ELSE self.current_progress
         IN  [tracker |-> [self EXCEPT !.current_progress = cp],
              sent |-> TRUE,
              event |-> [deployment_id |-> self.deployment_id,
                         message |-> message, stage |-> stage,
                         progress |-> cp],
              outcome |-> CallbackOutcome(behaviour)]

start_repo_clone == << E("repo_access", 5) >>

complete_repo_clone ==
    << E("repo_access", 15), E("repo_access", None), E("repo_access", None) >>

start_code_analysis == << E("code_analysis", 20) >>

emit_framework_detection ==
    << E("code_analysis", 25), E("code_analysis", None) >>

emit_dependency_analysis(database) ==
    IF database THEN << E("code_analysis", 30), E("code_analysis", None) >>
    ELSE << E("code_analysis", 30) >>

complete_code_analysis == << E("code_analysis", 35) >>

start_dockerfile_generation == << E("dockerfile_generation", 40) >>

\* one emit with progress 45, then one per optimization in optimizations[:2]
emit_dockerfile_optimization(optimizations) ==
    << E("dockerfile_generation", 45) >> \o
    [i \in 1..(IF optimizations < 2 THEN optimizations ELSE 2) |->
        E("dockerfile_generation", None)]

complete_dockerfile_generation ==
    << E("dockerfile_generation", 50), E("dockerfile_generation", None) >>

start_security_scan == << E("security_scan", 55) >>

emit_security_check == << E("security_scan", None) >>

complete_security_scan == << E("security_scan", 60) >>

start_container_build == << E("container_build", 65) >>

\* a helper that forwards the raw build percentage
emit_build_progress_raw(percentage) ==
    << E("container_build", percentage) >>

\* a helper that adds the raw build percentage to the band's start
emit_build_progress_unscaled(percentage) ==
    << E("container_build", 65 + percentage) >>

\* build_progress = 65 + int(percentage * 0.15); int() truncates, and for
\* every percentage in 0..300 int(percentage * 0.15) = (percentage * 15) div 100.
emit_build_progress(percentage) ==
    << E("container_build", 65 + (percentage * 15) \div 100) >>

\* step_progress = 65 + int((step_num / total_steps) * 15); for the step
\* numbers and totals drawn here int((s / t) * 15) = (s * 15) div t.
emit_build_step(step_num, total_steps) ==
    << E("container_build", 65 + (step_num * 15) \div total_steps) >>

complete_container_build ==
    << E("container_build", 80), E("container_build", None) >>

start_cloud_deployment ==
    << E("cloud_deployment", 85), E("cloud_deployment", None) >>

emit_deployment_config ==
    << E("cloud_deployment", 90), E("cloud_deployment", None) >>

emit_deployment_status == << E("cloud_deployment", 95) >>

complete_cloud_deployment ==
    << E("cloud_deployment", 100), E("cloud_deployment", None),
       E("cloud_deployment", None) >>

emit_error(stage) ==
    << [message |-> "error", stage |-> stage, progress |-> None] >>

emit_warning ==
    << [message |-> "warning", stage |-> "none", progress |-> None] >>

(***************************************************************************)
(* RetryStrategy.execute.  The operation is a script: the outcome of its   *)
(* i-th invocation, "ok" or the class of the error it raises.              *)
(* asyncio.CancelledError derives from BaseException, so `except           *)
(* Exception` does not catch it.                                           *)
(***************************************************************************)
ErrorKinds == {"transient", "config", "backend", "cancelled"}

\* a loop that stops one attempt early
AttemptRangeShort(max_retries) == 0..(max_retries - 2)

\* range(self.max_retries)
AttemptRange(max_retries) == 0..(max_retries - 1)

\* except Exception as e
Catches(kind) == kind \in {"transient", "config", "backend"}

\* if attempt < self.max_retries - 1
ShouldLogRetry(attempt, max_retries) == attempt < max_retries - 1

NoError == [kind |-> "none", at |-> 0]

\* a retry that waits base_delay every time
delay_constant(base_delay, attempt) == base_delay

\* delay = self.base_delay * (2 ** attempt); base_delay in units in which it
\* is a whole number (doubling a float is exact)
delay(base_delay, attempt) == base_delay * 2^attempt

\* slept: the arguments of asyncio.sleep so far
RetryStrategy(max_retries, base_delay, op) ==
    [max_retries |-> max_retries, base_delay |-> base_delay, op |-> op,
     attempt |-> 0, invocations |-> 0, logged |-> <<>>, slept |-> <<>>,
     last_exception |-> NoError, state |-> "running", raised |-> NoError]

RetryIdle == RetryStrategy(0, 1, <<>>)


\* One iteration of `for attempt in range(self.max_retries)`: the operation is
\* invoked; it returns, or raises what `except Exception` does not catch, or
\* its error is kept in last_exception, logged and slept on when another
\* attempt follows.
ExecuteAttempt ==
    /\ retry.state = "running"
    /\ retry.attempt \in AttemptRange(retry.max_retries)
    /\ LET n == retry.invocations + 1
           outcome == retry.op[n]
           invoked == [retry EXCEPT !.invocations = n]
       IN  retry' =
             IF outcome = "ok"
             THEN [invoked EXCEPT !.state = "returned"]
             ELSE IF ~Catches(outcome)
             THEN [invoked EXCEPT !.state = "raised",
                                  !.raised = [kind |-> outcome, at |-> n]]
             ELSE [invoked EXCEPT
                      !.last_exception = [kind |-> outcome, at |-> n],
                      !.logged = IF ShouldLogRetry(retry.attempt,
                                                   retry.max_retries)
                                 THEN Append(@, retry.attempt + 1) ELSE @,
                      !.slept = IF ShouldLogRetry(retry.attempt,
                                                  retry.max_retries)
                                THEN Append(@, delay(retry.base_delay,
                                                     retry.attempt))
                                ELSE @,
                      !.attempt = @ + 1]
    /\ UNCHANGED <<hvars, tvars, mvars, pvars, cancel_requested, svars>>

\* an executor that raises a generic error of its own instead
raise_wrapped(last_exception) == [kind |-> "RuntimeError", at |-> 0]

\* what `raise last_exception` raises: the kept error, or, when nothing was
\* kept and last_exception is still None, the interpreter's TypeError
raise_last(last_exception) ==
    IF last_exception = NoError THEN [kind |-> "TypeError", at |-> 0]
    ELSE last_exception

\* `raise last_exception` after the loop
ExecuteExhausted ==
    /\ retry.state = "running"
    /\ retry.attempt \notin AttemptRange(retry.max_retries)
    /\ retry' = [retry EXCEPT !.state = "raised",
                              !.raised = raise_last(retry.last_exception)]
    /\ UNCHANGED <<hvars, tvars, mvars, pvars, cancel_requested, svars>>

(***************************************************************************)
(* The sink and the collaborators' answers.                                *)
(***************************************************************************)
\* What `await progress_callback(update)` can do now.  A connected websocket
\* accepts the update or never returns from send_json; a disconnected one
\* raises; a stalled one has not returned.
SinkBehaviours ==
    CASE sink = "absent" -> {"absent"}
      [] sink = "connected" -> {"ok", "stall"}
      [] sink = "disconnected" -> {"raise"}
      [] OTHER -> {}

\* An emit that schedules the callback instead of awaiting it: a later update
\* can reach the sink before an earlier one.
CallbackUnawaited(e, behaviour) ==
    /\ tracker' = e.tracker
    /\ emitted' = IF e.sent THEN Append(emitted, e.event) ELSE emitted
    /\ delivered' = IF e.sent /\ behaviour = "ok"
                    THEN << e.event >> \o delivered ELSE delivered
    /\ lastEmit' = [behaviour |-> behaviour, outcome |-> e.outcome]
    /\ sink' = IF e.outcome = "pending" THEN "stalled" ELSE sink

\* The effect of one emit call `e` on the tracker and on what the sink saw.
Callback(e, behaviour) ==
    /\ tracker' = e.tracker
    /\ emitted' = IF e.sent THEN Append(emitted, e.event) ELSE emitted
    /\ delivered' = IF e.sent /\ behaviour = "ok"
                    THEN Append(delivered, e.event) ELSE delivered
    /\ lastEmit' = [behaviour |-> behaviour, outcome |-> e.outcome]
    /\ sink' = IF e.outcome = "pending" THEN "stalled" ELSE sink

\* The handler awaits the sub-th emit of a tracker helper, then goes on to the
\* helper's next emit or, after the last, to statement `next`.  An exception
\* out of emit would leave for the enclosing except clause, `onRaise`.
EmitSeq(events, next, onRaise) ==
    \E behaviour \in SinkBehaviours :
        LET e == emit(tracker, events[sub].message, events[sub].stage,
                      events[sub].progress,
                      behaviour)
        IN  /\ Callback(e, behaviour)
            /\ CASE e.outcome = "returned" ->
                      /\ IF sub < Len(events)
                         THEN sub' = sub + 1 /\ pc' = pc
                         ELSE sub' = 1 /\ pc' = next
                      /\ exc' = exc
                 [] e.outcome = "pending" -> UNCHANGED <<pc, sub, exc>>
                 [] OTHER -> sub' = 1 /\ pc' = onRaise /\ exc' = "emit"

\* A collaborator's answer.  The first run records it; the second run of a
\* pair is given the answers of the first, in order.
Ch(c, n) == [c |-> c, n |-> n]

Answer(x) ==
    IF phase = 2
    THEN tape # <<>> /\ x = Head(tape) /\ tape' = Tail(tape)
    ELSE tape' = Append(tape, x)

Call(op, outcome) == [op |-> op, outcome |-> outcome]

SetLast(s, outcome) == [s EXCEPT ![Len(s)].outcome = outcome]

\* deployment_id of the run being handled
RunId == phase

\* deployment_id of the tracker the except clause of _handle_clone_and_analyze
\* creates ("error-<timestamp>")
ErrorTrackerId == 0

\* record_stage(deployment_id, 'validation', 'success', 0.5), in clock ticks of 0.5 s
ValidationDuration == 1

\* RetryStrategy(max_retries=3, ...)
DefaultMaxRetries == 3

(***************************************************************************)
(* OrchestratorAgent._handle_function_call                                 *)
(***************************************************************************)
handlers ==
    [clone_and_analyze_repo |-> "a_start",
     deploy_to_cloudrun |-> "d_check_gcloud",
     list_user_repositories |-> "l_list",
     get_deployment_logs |-> "g_logs"]

FunctionNames == DOMAIN handlers \cup {"unknown_function"}

HandleFunctionCall ==
    /\ pc = "idle"
    /\ \E name \in FunctionNames :
        /\ fn' = name
        /\ IF name \in DOMAIN handlers
           THEN pc' = handlers[name] /\ result' = result
           ELSE pc' = "done" /\ result' = "error"
    /\ UNCHANGED <<sub, gcloud, exc, calls, scan, warned, analysis, build,
                   tvars, mvars, pvars, retry, cancel_requested, svars>>

(***************************************************************************)
(* OrchestratorAgent._handle_list_repos and _handle_get_logs: they call    *)
(* progress_callback directly, inside their try block.                     *)
(***************************************************************************)
DirectCallback(answer) ==
    \E behaviour \in SinkBehaviours :
        /\ sink' = IF behaviour = "stall" THEN "stalled" ELSE sink
        /\ CASE behaviour = "stall" -> UNCHANGED <<pc, result, exc>>
             [] behaviour = "raise" ->
                  pc' = "done" /\ result' = "error" /\ exc' = "Exception"
             [] OTHER ->
                  /\ pc' = "done"
                  /\ result' = IF answer = "raise" THEN "error" ELSE "message"
                  /\ exc' = IF answer = "raise" THEN "Exception" ELSE exc

HandleListRepos ==
    /\ pc = "l_list"
    /\ \E token_valid \in BOOLEAN, repos \in {"repos", "empty", "raise"} :
         IF ~token_valid
         THEN pc' = "done" /\ result' = "error" /\ UNCHANGED <<sink, exc>>
         ELSE DirectCallback(repos)
    /\ UNCHANGED <<fn, sub, gcloud, calls, scan, warned, analysis, build,
                   tracker, emitted, delivered, lastEmit, mvars, pvars, retry,
                   cancel_requested, svars>>

HandleGetLogs ==
    /\ pc = "g_logs"
    /\ IF ~gcloud
       THEN pc' = "done" /\ result' = "error" /\ UNCHANGED <<sink, exc>>
       ELSE \E logs \in {"logs", "empty"} : DirectCallback(logs)
    /\ UNCHANGED <<fn, sub, gcloud, calls, scan, warned, analysis, build,
                   tracker, emitted, delivered, lastEmit, mvars, pvars, retry,
                   cancel_requested, svars>>

(***************************************************************************)
(* OrchestratorAgent._handle_deploy_to_cloudrun                            *)
(***************************************************************************)
\* if not self.gcloud_service: return error
DeployCheckGcloud ==
    /\ pc = "d_check_gcloud"
    /\ IF gcloud THEN pc' = "d_start" /\ result' = result
       ELSE pc' = "done" /\ result' = "error"
    /\ UNCHANGED <<fn, sub, gcloud, exc, calls, scan, warned, analysis, build,
                   tvars, mvars, pvars, retry, cancel_requested, svars>>

\* tracker = create_progress_tracker(...); self.monitoring.start_deployment(...)
DeployStart ==
    /\ pc = "d_start"
    /\ tracker' = DeploymentProgressTracker(RunId)
    /\ monitoring' = start_deployment(monitoring, RunId, now)
    /\ NoteStart(RunId)
    /\ pc' = "d_validate_name"
    /\ UNCHANGED <<fn, sub, gcloud, exc, result, calls, scan, warned, analysis,
                   build, sink, emitted, delivered, lastEmit, now, ops, pvars,
                   retry, cancel_requested, svars>>

\* name_validation = self.security.validate_service_name(service_name)
DeployValidateName ==
    /\ pc = "d_validate_name"
    /\ \E valid \in BOOLEAN :
        /\ Answer(Ch(IF valid THEN "valid" ELSE "invalid", 0))
        /\ calls' = Append(calls, Call("validate_service_name",
                                       IF valid THEN "ok" ELSE "failed"))
        /\ IF valid
           THEN pc' = "d_validate_env" /\ UNCHANGED <<monitoring, audit, result>>
           ELSE /\ monitoring' =
                      complete_deployment(monitoring, RunId, "failed", now)
                /\ NoteComplete(RunId)
                /\ result' = "error"
                /\ pc' = "done"
    /\ UNCHANGED <<fn, sub, gcloud, exc, scan, warned, analysis, build, tvars,
                   now, ops, phase, first, retry, cancel_requested, svars>>

\* if env_vars: env_validation = self.security.validate_env_vars(env_vars)
DeployValidateEnv ==
    /\ pc = "d_validate_env"
    /\ \E env \in {"no_env_vars", "clean", "issues"} :
        /\ Answer(Ch(env, 0))
        /\ calls' = IF env = "no_env_vars" THEN calls
                    ELSE Append(calls, Call("validate_env_vars", "ok"))
        /\ monitoring' = IF env = "issues"
                         THEN record_error(monitoring, RunId, "env")
                         ELSE monitoring
    /\ pc' = "d_optimal_config"
    /\ UNCHANGED <<fn, sub, gcloud, exc, result, scan, warned, analysis, build,
                   tvars, now, ops, audit, phase, first, retry,
                   cancel_requested, svars>>

\* optimal_config = ...get_optimal_config(...); record_stage('validation', ...)
DeployOptimalConfig ==
    /\ pc = "d_optimal_config"
    /\ Answer(Ch("config", 0))
    /\ calls' = Append(calls, Call("get_optimal_config", "ok"))
    /\ monitoring' = record_stage(monitoring, RunId, "validation", "success",
                                  ValidationDuration)
    /\ pc' = "d_validate_dockerfile"
    /\ UNCHANGED <<fn, sub, gcloud, exc, result, scan, warned, analysis, build,
                   tvars, now, ops, audit, phase, first, retry,
                   cancel_requested, svars>>

\* dockerfile_check = self.docker_service.validate_dockerfile(project_path)
DeployValidateDockerfile ==
    /\ pc = "d_validate_dockerfile"
    /\ \E valid \in BOOLEAN :
        /\ Answer(Ch(IF valid THEN "valid" ELSE "invalid", 0))
        /\ calls' = Append(calls, Call("validate_dockerfile",
                                       IF valid THEN "ok" ELSE "failed"))
        /\ IF valid
           THEN pc' = "d_start_security_scan"
                /\ UNCHANGED <<monitoring, audit, result>>
           ELSE /\ monitoring' =
                      complete_deployment(monitoring, RunId, "failed", now)
                /\ NoteComplete(RunId)
                /\ result' = "error"
                /\ pc' = "done"
    /\ UNCHANGED <<fn, sub, gcloud, exc, scan, warned, analysis, build, tvars,
                   now, ops, phase, first, retry, cancel_requested, svars>>

DeployStartSecurityScan ==
    /\ pc = "d_start_security_scan"
    /\ EmitSeq(start_security_scan, "d_scan", "d_except")
    /\ UNCHANGED <<fn, gcloud, result, calls, scan, warned, analysis, build,
                   mvars, pvars, retry, cancel_requested, svars>>

\* security_scan = self.security.scan_dockerfile_security(open(...).read())
DeployScan ==
    /\ pc = "d_scan"
    /\ \E secure \in BOOLEAN, issues \in 0..MaxIssues :
        /\ Answer(Ch(IF secure THEN "secure" ELSE "insecure", issues))
        /\ scan' = [secure |-> secure, issues |-> issues]
    /\ calls' = Append(calls, Call("scan_dockerfile_security", "ok"))
    /\ pc' = "d_security_checks"
    /\ UNCHANGED <<fn, sub, gcloud, exc, result, warned, analysis, build, tvars,
                   mvars, phase, first, retry, cancel_requested, svars>>

\* the three tracker.emit_security_check(...) calls
DeploySecurityChecks ==
    /\ pc = "d_security_checks"
    /\ EmitSeq(emit_security_check \o emit_security_check
                   \o emit_security_check,
               "d_complete_security_scan", "d_except")
    /\ UNCHANGED <<fn, gcloud, result, calls, scan, warned, analysis, build,
                   mvars, pvars, retry, cancel_requested, svars>>

\* len(security_scan['issues'][:3])
Min(a, b) == IF a < b THEN a ELSE b

WarnedIssues(s) == IF s.secure THEN 0 ELSE Min(s.issues, 3)

\* a handler with a fail-on-any-issue policy
AfterSecurityScanFailOnIssue(s) ==
    IF s.issues > 0 THEN "d_except"
    ELSE "d_start_container_build"

\* where the handler goes after complete_security_scan: into the warning
\* loop when it has issues to report, else on to the build
AfterSecurityScan(s) ==
    IF WarnedIssues(s) > 0 THEN "d_warn"
    ELSE "d_start_container_build"

DeployCompleteSecurityScan ==
    /\ pc = "d_complete_security_scan"
    /\ EmitSeq(complete_security_scan, AfterSecurityScan(scan), "d_except")
    /\ warned' = 0
    /\ UNCHANGED <<fn, gcloud, result, calls, scan, analysis, build, mvars,
                   pvars, retry, cancel_requested, svars>>

\* for issue in issues[:3]: record_error(...); await tracker.emit_warning(...)
DeployWarn ==
    /\ pc = "d_warn"
    /\ monitoring' = record_error(monitoring, RunId, "security")
    /\ warned' = warned + 1
    /\ EmitSeq(emit_warning,
               IF warned + 1 < WarnedIssues(scan) THEN "d_warn"
               ELSE "d_start_container_build",
               "d_except")
    /\ UNCHANGED <<fn, gcloud, result, calls, scan, analysis, build, now, ops,
                   audit,
                   pvars, retry, cancel_requested, svars>>

DeployStartContainerBuild ==
    /\ pc = "d_start_container_build"
    /\ EmitSeq(start_container_build, "b_start", "d_except")
    /\ UNCHANGED <<fn, gcloud, result, calls, scan, warned, analysis, build,
                   mvars, pvars, retry, cancel_requested, svars>>

(***************************************************************************)
(* GCloudService.build_image, called with the handler's build_progress as  *)
(* progress_callback.  Its try block turns every Exception into            *)
(* {'success': False}.                                                     *)
(***************************************************************************)
\* passed: the 'progress' values build_image has handed to progress_callback
BuildIdle ==
    [progress |-> 0, lines |-> 0, outcome |-> "none", start |-> 0,
     passed |-> <<>>]

\* The first marker a build output line holds, in the order of the if/elif
\* chain: 'Fetching' or 'Pulling', 'Step', 'Pushing', 'DONE' or 'SUCCESS',
\* none of them, or nothing at all (the line is skipped).
LineKinds == {"Fetching", "Step", "Pushing", "DONE", "other", "empty"}

LineProgress(kind, progress) ==
    CASE kind = "Fetching" -> Min(progress + 2, 30)
      [] kind = "Step" -> Min(progress + 3, 70)
      [] kind = "Pushing" -> Min(progress + 5, 90)
      [] kind = "DONE" -> 95
      [] OTHER -> progress

\* build_progress(data): build_image's updates carry no 'step', so the elif
\* branch forwards data['progress'] when it is not 0.
build_progress(progress) ==
    IF progress # 0 THEN emit_build_progress(progress) ELSE <<>>

\* a handler that does not look at build_result['success']
build_failed_ignored(build_result) == FALSE

\* if not build_result.get('success')
build_failed(build_result) == build_result.outcome # "success"

\* `await progress_callback({... 'progress': percentage ...})` inside
\* build_image; an exception out of it would end in build_image's except.
BuildCallback(percentage, nextBuild, nextPc) ==
    LET events == build_progress(percentage)
        called == [nextBuild EXCEPT !.passed = Append(@, percentage)]
    IN  IF events = <<>>
        THEN build' = called /\ pc' = nextPc /\ UNCHANGED tvars
        ELSE \E behaviour \in SinkBehaviours :
                LET e == emit(tracker, events[1].message, events[1].stage,
                              events[1].progress,
                              behaviour)
                IN  /\ Callback(e, behaviour)
                    /\ CASE e.outcome = "returned" ->
                              build' = called /\ pc' = nextPc
                         [] e.outcome = "pending" -> UNCHANGED <<build, pc>>
                         [] OTHER ->
                              /\ build' = [called EXCEPT
                                              !.outcome = "failed"]
                              /\ pc' = "d_record_build"

\* build_image, lines 160-183: the path checks and the first update
BuildImageStart ==
    /\ pc = "b_start"
    /\ calls' = Append(calls, Call("build_image", "pending"))
    /\ \E found \in BOOLEAN :
        /\ Answer(Ch(IF found THEN "found" ELSE "missing", 0))
        /\ IF found
           THEN BuildCallback(10, [BuildIdle EXCEPT !.progress = 10,
                                                    !.outcome = "running",
                                                    !.start = now],
                              "b_spawn")
           ELSE /\ build' = [BuildIdle EXCEPT !.outcome = "failed",
                                              !.start = now]
                /\ pc' = "d_record_build"
                /\ UNCHANGED tvars
    /\ UNCHANGED <<fn, sub, gcloud, exc, result, scan, warned, analysis, mvars,
                   phase, first, retry, cancel_requested, svars>>

\* process = await asyncio.create_subprocess_exec(*cmd, ...)
BuildImageSpawn ==
    /\ pc = "b_spawn"
    /\ \E spawned \in BOOLEAN :
        /\ Answer(Ch(IF spawned THEN "spawned" ELSE "spawn_failed", 0))
        /\ IF spawned
           THEN pc' = "b_stream" /\ build' = build
           ELSE pc' = "d_record_build"
                /\ build' = [build EXCEPT !.outcome = "failed"]
    /\ UNCHANGED <<fn, sub, gcloud, exc, result, calls, scan, warned, analysis,
                   tvars, mvars, phase, first, retry, cancel_requested, svars>>

\* one iteration of `async for line in process.stdout`, of a build that
\* prints at most max_lines lines
BuildImageLineUpTo(max_lines) ==
    /\ pc = "b_stream"
    /\ build.lines < max_lines
    /\ \E kind \in LineKinds :
        /\ Answer(Ch(kind, 0))
        /\ LET progress == LineProgress(kind, build.progress)
               read == [build EXCEPT !.progress = progress, !.lines = @ + 1]
           IN  IF kind = "empty"
               THEN build' = read /\ pc' = pc /\ UNCHANGED tvars
               ELSE BuildCallback(progress, read, "b_stream")
    /\ UNCHANGED <<fn, sub, gcloud, exc, result, calls, scan, warned, analysis,
                   mvars, phase, first, retry, cancel_requested, svars>>

BuildImageLine == BuildImageLineUpTo(MaxLines)

\* await process.wait() and the branch on process.returncode
BuildImageExit ==
    /\ pc = "b_stream"
    /\ \E returncode \in {0, 1} :
        /\ Answer(Ch("returncode", returncode))
        /\ IF returncode = 0
           THEN BuildCallback(100, [build EXCEPT !.outcome = "success"],
                              "d_record_build")
           ELSE /\ build' = [build EXCEPT !.outcome = "failed"]
                /\ pc' = "d_record_build"
                /\ UNCHANGED tvars
    /\ UNCHANGED <<fn, sub, gcloud, exc, result, calls, scan, warned, analysis,
                   mvars, phase, first, retry, cancel_requested, svars>>

(***************************************************************************)
(* _handle_deploy_to_cloudrun, from the return of build_image              *)
(***************************************************************************)
\* record_stage(deployment_id, 'build', 'success', build_duration), then the
\* branch on build_result.get('success')
DeployRecordBuild ==
    /\ pc = "d_record_build"
    /\ calls' = SetLast(calls, IF build.outcome = "success" THEN "ok"
                               ELSE "failed")
    /\ monitoring' = record_stage(monitoring, RunId, "build", "success",
                                  now - build.start)
    /\ pc' = IF build_failed(build) THEN "d_build_failed"
             ELSE "d_complete_container_build"
    /\ UNCHANGED <<fn, sub, gcloud, exc, result, scan, warned, analysis, build,
                   tvars, now, ops, audit, pvars, retry, cancel_requested, svars>>

\* await tracker.emit_error('container_build', ...)
DeployBuildFailed ==
    /\ pc = "d_build_failed"
    /\ EmitSeq(emit_error("container_build"), "d_build_failed_return",
               "d_except")
    /\ UNCHANGED <<fn, gcloud, result, calls, scan, warned, analysis, build,
                   mvars, pvars, retry, cancel_requested, svars>>

\* complete_deployment(deployment_id, 'failed'); return error
DeployBuildFailedReturn ==
    /\ pc = "d_build_failed_return"
    /\ monitoring' = complete_deployment(monitoring, RunId, "failed", now)
    /\ NoteComplete(RunId)
    /\ result' = "error"
    /\ pc' = "done"
    /\ UNCHANGED <<fn, sub, gcloud, exc, calls, scan, warned, analysis, build,
                   tvars, now, ops, pvars, retry, cancel_requested, svars>>

DeployCompleteContainerBuild ==
    /\ pc = "d_complete_container_build"
    /\ EmitSeq(complete_container_build, "d_start_cloud_deployment",
               "d_except")
    /\ UNCHANGED <<fn, gcloud, result, calls, scan, warned, analysis, build,
                   mvars, pvars, retry, cancel_requested, svars>>

DeployStartCloudDeployment ==
    /\ pc = "d_start_cloud_deployment"
    /\ EmitSeq(start_cloud_deployment, "d_emit_deployment_config", "d_except")
    /\ UNCHANGED <<fn, gcloud, result, calls, scan, warned, analysis, build,
                   mvars, pvars, retry, cancel_requested, svars>>

DeployEmitDeploymentConfig ==
    /\ pc = "d_emit_deployment_config"
    /\ EmitSeq(emit_deployment_config, "d_deploy_to_cloudrun", "d_except")
    /\ UNCHANGED <<fn, gcloud, result, calls, scan, warned, analysis, build,
                   mvars, pvars, retry, cancel_requested, svars>>

\* The keyword arguments the handler passes to GCloudService.deploy_to_cloudrun
\* and the parameters its signature has: user_id is not one of them, so the
\* call raises TypeError before the method body runs.
DeployCallKeywords == {"env_vars", "progress_callback", "user_id"}
DeployToCloudrunParameters ==
    {"image_tag", "service_name", "env_vars", "secrets", "progress_callback"}

\* deploy_result = await self.gcloud_service.deploy_to_cloudrun(..., user_id=...)
\* Lines 593-694 of the handler follow a return of this call; no run gets there.
DeployToCloudrun ==
    /\ pc = "d_deploy_to_cloudrun"
    /\ ~(DeployCallKeywords \subseteq DeployToCloudrunParameters)
    /\ calls' = Append(calls, Call("deploy_to_cloudrun", "raised"))
    /\ exc' = "TypeError"
    /\ pc' = "d_except"
    /\ UNCHANGED <<fn, sub, gcloud, result, scan, warned, analysis, build,
                   tvars, mvars, pvars, retry, cancel_requested, svars>>

\* The collaborator calls of the try block that can raise: the security and
\* optimization services and open(Dockerfile).
DeployRaisingCalls ==
    [d_validate_name |-> "validate_service_name",
     d_validate_env |-> "validate_env_vars",
     d_optimal_config |-> "get_optimal_config",
     d_scan |-> "scan_dockerfile_security"]

DeployRaise ==
    /\ pc \in DOMAIN DeployRaisingCalls
    /\ Answer(Ch("raise", 0))
    /\ calls' = Append(calls, Call(DeployRaisingCalls[pc], "raised"))
    /\ exc' = "Exception"
    /\ pc' = "d_except"
    /\ UNCHANGED <<fn, sub, gcloud, result, scan, warned, analysis, build,
                   tvars, mvars, phase, first, retry, cancel_requested, svars>>

\* except Exception as e: complete_deployment(deployment_id, 'failed'); return
DeployExcept ==
    /\ pc = "d_except"
    /\ monitoring' = complete_deployment(monitoring, RunId, "failed", now)
    /\ NoteComplete(RunId)
    /\ result' = "error"
    /\ pc' = "done"
    /\ UNCHANGED <<fn, sub, gcloud, exc, calls, scan, warned, analysis, build,
                   tvars, now, ops, pvars, retry, cancel_requested, svars>>

\* The keys of the dict _handle_clone_and_analyze and
\* _handle_deploy_to_cloudrun return, by its 'type'.
ResultKeys(type) ==
    CASE type = "error" -> {"type", "content", "timestamp"}
      [] type = "analysis" ->
            {"type", "content", "data", "actions", "timestamp"}
      [] OTHER -> {}

(***************************************************************************)
(* OrchestratorAgent._handle_clone_and_analyze                             *)
(***************************************************************************)
AnalysisIdle == [database |-> FALSE, optimizations |-> 0, source |-> "none"]

\* How self.model.generate_content_async(prompt) can end
GeneratorBehaviours == {"returns", "raises"}

\* _generate_custom_dockerfile(analysis): one awaited model call with no
\* try/except around it; its text becomes the Dockerfile, with one optimization.
generate_custom_dockerfile(generator) ==
    IF generator = "raises"
    THEN [raised |-> TRUE, source |-> "custom", optimizations |-> 0]
    ELSE [raised |-> FALSE, source |-> "custom", optimizations |-> 1]

\* generate_dockerfile(analysis): the template for "<language>_<framework>" if
\* there is one, the custom generator otherwise.
generate_dockerfile(in_templates, optimizations, generator) ==
    IF in_templates
    THEN [raised |-> FALSE, source |-> "template",
          optimizations |-> optimizations]
    ELSE generate_custom_dockerfile(generator)

\* analyze_and_generate(project_path): an 'error' key in the analysis, or any
\* exception raised on the way, gives {'success': False, ...}.
analyze_and_generate(analysed, database, in_templates, optimizations, generator) ==
    IF ~analysed
    THEN [success |-> FALSE, analysis |-> AnalysisIdle]
    ELSE LET dockerfile == generate_dockerfile(in_templates, optimizations,
                                               generator)
         IN  IF dockerfile.raised
             THEN [success |-> FALSE,
                   analysis |-> [AnalysisIdle EXCEPT
                                    !.source = dockerfile.source]]
             ELSE [success |-> TRUE,
                   analysis |-> [database |-> database,
                                 optimizations |-> dockerfile.optimizations,
                                 source |-> dockerfile.source]]

\* tracker = create_progress_tracker(deployment_id=f"analysis-...", ...)
AnalyzeCreateTracker ==
    /\ pc = "a_start"
    /\ tracker' = DeploymentProgressTracker(RunId)
    /\ pc' = "a_start_repo_clone"
    /\ UNCHANGED <<fn, sub, gcloud, exc, result, calls, scan, warned, analysis,
                   build, sink, emitted, delivered, lastEmit, mvars, pvars,
                   retry, cancel_requested, svars>>

AnalyzeStartRepoClone ==
    /\ pc = "a_start_repo_clone"
    /\ EmitSeq(start_repo_clone, "a_clone", "a_except")
    /\ UNCHANGED <<fn, gcloud, result, calls, scan, warned, analysis, build,
                   mvars, pvars, retry, cancel_requested, svars>>

\* how one `subprocess.run(['git', 'clone', ...])` ends: return code 0, or a
\* failure that a later attempt need not meet again
GitOutcomes == {"ok", "transient"}

\* clone_repository(repo_url, branch), git[i] being the outcome of the i-th
\* git clone it runs: one clone of `branch`; if that fails and branch is
\* 'main', one clone of 'master'; a failure after that is returned as
\* {'success': False, ...}.
clone_repository(branch, git) ==
    IF git[1] = "ok"
    THEN [success |-> TRUE, attempts |-> << git[1] >>]
    ELSE IF branch = "main"
    THEN [success |-> git[2] = "ok", attempts |-> << git[1], git[2] >>]
    ELSE [success |-> FALSE, attempts |-> << git[1] >>]

\* clone_result = self.github_service.clone_repository(repo_url, branch)
AnalyzeClone ==
    /\ pc = "a_clone"
    /\ \E branch \in {"main", "other"}, git \in [1..2 -> GitOutcomes] :
        LET clone_result == clone_repository(branch, git)
            cloned == clone_result.success
        IN  /\ Answer(Ch(IF cloned THEN "cloned" ELSE "clone_failed",
                         Len(clone_result.attempts)))
            /\ calls' = calls \o
                          [i \in 1..Len(clone_result.attempts) |->
                              Call("git_clone", clone_result.attempts[i])] \o
                          << Call("clone_repository",
                                  IF cloned THEN "ok" ELSE "failed") >>
            /\ IF cloned
               THEN pc' = "a_complete_repo_clone" /\ result' = result
               ELSE pc' = "done" /\ result' = "error"
    /\ UNCHANGED <<fn, sub, gcloud, exc, scan, warned, analysis, build, tvars,
                   mvars, phase, first, retry, cancel_requested, svars>>

AnalyzeCompleteRepoClone ==
    /\ pc = "a_complete_repo_clone"
    /\ EmitSeq(complete_repo_clone, "a_start_code_analysis", "a_except")
    /\ UNCHANGED <<fn, gcloud, result, calls, scan, warned, analysis, build,
                   mvars, pvars, retry, cancel_requested, svars>>

AnalyzeStartCodeAnalysis ==
    /\ pc = "a_start_code_analysis"
    /\ EmitSeq(start_code_analysis, "a_analyze", "a_except")
    /\ UNCHANGED <<fn, gcloud, result, calls, scan, warned, analysis, build,
                   mvars, pvars, retry, cancel_requested, svars>>

\* analysis_result = await self.analysis_service.analyze_and_generate(path)
AnalyzeAndGenerate ==
    /\ pc = "a_analyze"
    /\ \E analysed \in BOOLEAN, database \in BOOLEAN, in_templates \in BOOLEAN,
          optimizations \in 0..MaxOptimizations,
          generator \in GeneratorBehaviours :
        LET analysis_result ==
                analyze_and_generate(analysed, database, in_templates,
                                     optimizations, generator)
        IN  /\ Answer(Ch(IF analysis_result.success
                         THEN (IF database THEN "analysed_database"
                               ELSE "analysed")
                         ELSE "analysis_failed",
                         IF analysis_result.analysis.source = "custom"
                         THEN None
                         ELSE analysis_result.analysis.optimizations))
            /\ calls' = Append(calls,
                               Call("analyze_and_generate",
                                    IF analysis_result.success THEN "ok"
                                    ELSE "failed"))
            /\ analysis' = analysis_result.analysis
            /\ pc' = IF analysis_result.success THEN "a_framework_detection"
                     ELSE "a_analysis_failed"
    /\ UNCHANGED <<fn, sub, gcloud, exc, result, scan, warned, build, tvars,
                   mvars, phase, first, retry, cancel_requested, svars>>

\* await tracker.emit_error('code_analysis', ...); return error
AnalyzeFailed ==
    /\ pc = "a_analysis_failed"
    /\ EmitSeq(emit_error("code_analysis"), "done", "a_except")
    /\ result' = IF pc' = "done" THEN "error" ELSE result
    /\ UNCHANGED <<fn, gcloud, calls, scan, warned, analysis, build, mvars,
                   pvars, retry, cancel_requested, svars>>

AnalyzeFrameworkDetection ==
    /\ pc = "a_framework_detection"
    /\ EmitSeq(emit_framework_detection, "a_dependency_analysis", "a_except")
    /\ UNCHANGED <<fn, gcloud, result, calls, scan, warned, analysis, build,
                   mvars, pvars, retry, cancel_requested, svars>>

AnalyzeDependencyAnalysis ==
    /\ pc = "a_dependency_analysis"
    /\ EmitSeq(emit_dependency_analysis(analysis.database),
               "a_complete_code_analysis", "a_except")
    /\ UNCHANGED <<fn, gcloud, result, calls, scan, warned, analysis, build,
                   mvars, pvars, retry, cancel_requested, svars>>

AnalyzeCompleteCodeAnalysis ==
    /\ pc = "a_complete_code_analysis"
    /\ EmitSeq(complete_code_analysis, "a_start_dockerfile_generation",
               "a_except")
    /\ UNCHANGED <<fn, gcloud, result, calls, scan, warned, analysis, build,
                   mvars, pvars, retry, cancel_requested, svars>>

AnalyzeStartDockerfileGeneration ==
    /\ pc = "a_start_dockerfile_generation"
    /\ EmitSeq(start_dockerfile_generation, "a_dockerfile_optimization",
               "a_except")
    /\ UNCHANGED <<fn, gcloud, result, calls, scan, warned, analysis, build,
                   mvars, pvars, retry, cancel_requested, svars>>

AnalyzeDockerfileOptimization ==
    /\ pc = "a_dockerfile_optimization"
    /\ EmitSeq(emit_dockerfile_optimization(analysis.optimizations),
               "a_save_dockerfile", "a_except")
    /\ UNCHANGED <<fn, gcloud, result, calls, scan, warned, analysis, build,
                   mvars, pvars, retry, cancel_requested, svars>>

\* dockerfile_save = self.docker_service.save_dockerfile(...): the handler
\* does not look at dockerfile_save['success']
AnalyzeSaveDockerfile ==
    /\ pc = "a_save_dockerfile"
    /\ \E saved \in BOOLEAN :
        /\ Answer(Ch(IF saved THEN "saved" ELSE "save_failed", 0))
        /\ calls' = Append(calls, Call("save_dockerfile",
                                       IF saved THEN "ok" ELSE "failed"))
    /\ pc' = "a_complete_dockerfile_generation"
    /\ UNCHANGED <<fn, sub, gcloud, exc, result, scan, warned, analysis, build,
                   tvars, mvars, phase, first, retry, cancel_requested, svars>>

AnalyzeCompleteDockerfileGeneration ==
    /\ pc = "a_complete_dockerfile_generation"
    /\ EmitSeq(complete_dockerfile_generation, "a_finish", "a_except")
    /\ UNCHANGED <<fn, gcloud, result, calls, scan, warned, analysis, build,
                   mvars, pvars, retry, cancel_requested, svars>>

\* create_dockerignore, project_context, the formatted content, the return;
\* formatting the model-generated lists ('* ' + rec) can raise
AnalyzeFinish ==
    /\ pc = "a_finish"
    /\ \/ /\ Answer(Ch("formatted", 0))
          /\ result' = "analysis"
          /\ pc' = "done"
          /\ exc' = exc
       \/ /\ Answer(Ch("raise", 0))
          /\ result' = result
          /\ pc' = "a_except"
          /\ exc' = "Exception"
    /\ UNCHANGED <<fn, sub, gcloud, calls, scan, warned, analysis, build, tvars,
                   mvars, phase, first, retry, cancel_requested, svars>>

\* except Exception as e: if progress_callback: a new tracker emits the
\* error, inside its own try; return error
AnalyzeExcept ==
    /\ pc = "a_except"
    /\ IF sink = "absent"
       THEN UNCHANGED tvars /\ pc' = "done"
       ELSE \E behaviour \in SinkBehaviours :
               LET e == emit(DeploymentProgressTracker(ErrorTrackerId),
                             "error", "Repository Analysis", None,
                             behaviour)
               IN  /\ Callback(e, behaviour)
                   /\ pc' = IF e.outcome = "pending" THEN pc ELSE "done"
    /\ result' = IF pc' = "done" THEN "error" ELSE result
    /\ UNCHANGED <<fn, sub, gcloud, exc, calls, scan, warned, analysis, build,
                   mvars, pvars, retry, cancel_requested, svars>>

(***************************************************************************)
(* Environment: the client goes away, after which send_json raises.        *)
(***************************************************************************)
Disconnect ==
    /\ sink = "connected"
    /\ pc \notin {"done", "off"}
    /\ sink' = "disconnected"
    /\ UNCHANGED <<hvars, tracker, emitted, delivered, lastEmit, mvars, pvars,
                   retry, cancel_requested, svars>>

(***************************************************************************)
(* The pipeline specification: one orchestrator, one function call.        *)
(***************************************************************************)
NoEmit == [behaviour |-> "none", outcome |-> "none"]

NoOutcome == [result |-> "none", status |-> "none", stages |-> <<>>,
              errors |-> <<>>, tracked |-> FALSE]

HandlerInit ==
    /\ fn = "none"
    /\ pc = "idle"
    /\ sub = 1
    /\ gcloud \in BOOLEAN
    /\ exc = "none"
    /\ result = "none"
    /\ calls = <<>>
    /\ scan = [secure |-> TRUE, issues |-> 0]
    /\ warned = 0
    /\ analysis = AnalysisIdle
    /\ build = BuildIdle
    /\ tracker = DeploymentProgressTracker(None)
    /\ sink \in {"absent", "connected", "disconnected"}
    /\ emitted = <<>>
    /\ delivered = <<>>
    /\ lastEmit = NoEmit
    /\ phase = 1
    /\ tape = <<>>
    /\ first = NoOutcome
    /\ cancel_requested = FALSE
    /\ SocketsIdle

Init ==
    /\ HandlerInit
    /\ monitoring = MonitoringService
    /\ now = 0
    /\ ops = 0
    /\ audit = <<>>
    /\ retry = RetryIdle

HandlerNext ==
    \/ HandleFunctionCall
    \/ HandleListRepos
    \/ HandleGetLogs
    \/ DeployCheckGcloud
    \/ DeployStart
    \/ DeployValidateName
    \/ DeployValidateEnv
    \/ DeployOptimalConfig
    \/ DeployValidateDockerfile
    \/ DeployStartSecurityScan
    \/ DeployScan
    \/ DeploySecurityChecks
    \/ DeployCompleteSecurityScan
    \/ DeployWarn
    \/ DeployStartContainerBuild
    \/ BuildImageStart
    \/ BuildImageSpawn
    \/ BuildImageLine
    \/ BuildImageExit
    \/ DeployRecordBuild
    \/ DeployBuildFailed
    \/ DeployBuildFailedReturn
    \/ DeployCompleteContainerBuild
    \/ DeployStartCloudDeployment
    \/ DeployEmitDeploymentConfig
    \/ DeployToCloudrun
    \/ DeployRaise
    \/ DeployExcept
    \/ AnalyzeCreateTracker
    \/ AnalyzeStartRepoClone
    \/ AnalyzeClone
    \/ AnalyzeCompleteRepoClone
    \/ AnalyzeStartCodeAnalysis
    \/ AnalyzeAndGenerate
    \/ AnalyzeFailed
    \/ AnalyzeFrameworkDetection
    \/ AnalyzeDependencyAnalysis
    \/ AnalyzeCompleteCodeAnalysis
    \/ AnalyzeStartDockerfileGeneration
    \/ AnalyzeDockerfileOptimization
    \/ AnalyzeSaveDockerfile
    \/ AnalyzeCompleteDockerfileGeneration
    \/ AnalyzeFinish
    \/ AnalyzeExcept

Next == HandlerNext \/ Disconnect

Spec == Init /\ [][Next]_vars

(***************************************************************************)
(* The pipeline with a client that may ask for cancellation.  The message  *)
(* loop of the websocket endpoint is suspended in process_message while a  *)
(* handler runs, so what the client sends stays unread until the handler   *)
(* has returned; no statement of the handler reads it.                     *)
(***************************************************************************)
\* the statements of _handle_deploy_to_cloudrun that begin the second, third
\* and fourth stage
StageBoundaries ==
    {"d_validate_dockerfile", "d_start_container_build",
     "d_start_cloud_deployment"}

\* the client sends a cancellation request while the handler is between two
\* stages
RequestCancel ==
    /\ fn = "deploy_to_cloudrun"
    /\ pc \in StageBoundaries
    /\ ~cancel_requested
    /\ cancel_requested' = TRUE
    /\ UNCHANGED <<hvars, tvars, mvars, pvars, retry, svars>>

NextCancel == Next \/ RequestCancel

SpecCancel == Init /\ [][NextCancel]_vars

(***************************************************************************)
(* The helpers of DeploymentProgressTracker as functions of their          *)
(* arguments: a caller holding a tracker with a connected sink calls       *)
(* helpers, each with arguments of the declared types.                     *)
(***************************************************************************)
\* percentage: int
Percentages == {0, 50, 100, 150, 200}

\* step_num: int, total_steps: int (a total of 0 raises ZeroDivisionError
\* before anything is emitted)
StepNumbers == 1..(2 * MaxSteps)
TotalSteps == 1..MaxSteps

\* every helper call, with the events it passes to emit, in order
HelperCalls ==
    {Call("start_repo_clone", start_repo_clone),
     Call("complete_repo_clone", complete_repo_clone),
     Call("start_code_analysis", start_code_analysis),
     Call("emit_framework_detection", emit_framework_detection),
     Call("complete_code_analysis", complete_code_analysis),
     Call("start_dockerfile_generation", start_dockerfile_generation),
     Call("complete_dockerfile_generation", complete_dockerfile_generation),
     Call("start_security_scan", start_security_scan),
     Call("emit_security_check", emit_security_check),
     Call("complete_security_scan", complete_security_scan),
     Call("start_container_build", start_container_build),
     Call("complete_container_build", complete_container_build),
     Call("start_cloud_deployment", start_cloud_deployment),
     Call("emit_deployment_config", emit_deployment_config),
     Call("emit_deployment_status", emit_deployment_status),
     Call("complete_cloud_deployment", complete_cloud_deployment)}
    \cup {Call("emit_dependency_analysis", emit_dependency_analysis(database)) :
            database \in BOOLEAN}
    \cup {Call("emit_dockerfile_optimization",
               emit_dockerfile_optimization(optimizations)) :
            optimizations \in 0..MaxOptimizations}
    \cup {Call("emit_build_progress", emit_build_progress(percentage)) :
            percentage \in Percentages}
    \cup {Call("emit_build_step", emit_build_step(step_num, total_steps)) :
            step_num \in StepNumbers, total_steps \in TotalSteps}

\* the awaits of one helper, one emit after the other, the sink answering
RECURSIVE EmitAll(_, _, _)
EmitAll(self, events, sent) ==
    IF events = <<>>
    THEN [tracker |-> self, sent |-> sent]
    ELSE LET e == emit(self, Head(events).message, Head(events).stage,
                       Head(events).progress, "ok")
         IN  EmitAll(e.tracker, Tail(events), Append(sent, e.event))

\* await tracker.<helper>(<arguments>)
HelperCall ==
    /\ pc = "off"
    /\ Len(calls) < MaxHelperCalls
    /\ \E call \in HelperCalls :
        LET run == EmitAll(tracker, call.outcome, <<>>)
        IN  /\ calls' = Append(calls, call)
            /\ tracker' = run.tracker
            /\ emitted' = emitted \o run.sent
            /\ delivered' = delivered \o run.sent
            /\ lastEmit' = [behaviour |-> "ok", outcome |-> "returned"]
    /\ UNCHANGED <<fn, pc, sub, gcloud, exc, result, scan, warned, analysis,
                   build, sink, mvars, pvars, retry, cancel_requested, svars>>

InitHelpers ==
    /\ phase = 1
    /\ fn = "none"
    /\ pc = "off"
    /\ sub = 1
    /\ gcloud = FALSE
    /\ exc = "none"
    /\ result = "none"
    /\ calls = <<>>
    /\ scan = [secure |-> TRUE, issues |-> 0]
    /\ warned = 0
    /\ analysis = AnalysisIdle
    /\ build = BuildIdle
    /\ tracker = DeploymentProgressTracker(RunId)
    /\ sink = "connected"
    /\ emitted = <<>>
    /\ delivered = <<>>
    /\ lastEmit = NoEmit
    /\ tape = <<>>
    /\ first = NoOutcome
    /\ cancel_requested = FALSE
    /\ SocketsIdle
    /\ monitoring = MonitoringService
    /\ now = 0
    /\ ops = 0
    /\ audit = <<>>
    /\ retry = RetryIdle

NextHelpers == HelperCall

SpecHelpers == InitHelpers /\ [][NextHelpers]_vars

(***************************************************************************)
(* build_image on its own: a caller that holds a tracker passes the        *)
(* handler's build_progress as progress_callback, for every build output   *)
(* of up to MaxBuildLines lines.                                           *)
(***************************************************************************)
BuildOutputLine == BuildImageLineUpTo(MaxBuildLines)

InitBuild ==
    /\ phase = 1
    /\ fn = "deploy_to_cloudrun"
    /\ pc = "b_start"
    /\ sub = 1
    /\ gcloud = TRUE
    /\ exc = "none"
    /\ result = "none"
    /\ calls = <<>>
    /\ scan = [secure |-> TRUE, issues |-> 0]
    /\ warned = 0
    /\ analysis = AnalysisIdle
    /\ build = BuildIdle
    /\ tracker = DeploymentProgressTracker(RunId)
    /\ sink \in {"absent", "connected", "disconnected"}
    /\ emitted = <<>>
    /\ delivered = <<>>
    /\ lastEmit = NoEmit
    /\ tape = <<>>
    /\ first = NoOutcome
    /\ cancel_requested = FALSE
    /\ SocketsIdle
    /\ monitoring = MonitoringService
    /\ now = 0
    /\ ops = 0
    /\ audit = <<>>
    /\ retry = RetryIdle

NextBuild ==
    \/ BuildImageStart
    \/ BuildImageSpawn
    \/ BuildOutputLine
    \/ BuildImageExit

SpecBuild == InitBuild /\ [][NextBuild]_vars

(***************************************************************************)
(* RetryStrategy.execute on every operation script.                        *)
(***************************************************************************)
HandlerOff ==
    /\ fn = "none"
    /\ pc = "off"
    /\ sub = 1
    /\ gcloud = FALSE
    /\ exc = "none"
    /\ result = "none"
    /\ calls = <<>>
    /\ scan = [secure |-> TRUE, issues |-> 0]
    /\ warned = 0
    /\ analysis = AnalysisIdle
    /\ build = BuildIdle
    /\ tracker = DeploymentProgressTracker(None)
    /\ sink = "absent"
    /\ emitted = <<>>
    /\ delivered = <<>>
    /\ lastEmit = NoEmit
    /\ phase = 1
    /\ tape = <<>>
    /\ first = NoOutcome
    /\ cancel_requested = FALSE
    /\ SocketsIdle

InitRetry ==
    /\ HandlerOff
    /\ monitoring = MonitoringService
    /\ now = 0
    /\ ops = 0
    /\ audit = <<>>
    /\ \E max_retries \in 1..MaxRetriesBound, base_delay \in 1..MaxBaseDelay :
         \E op \in [1..max_retries -> {"ok"} \cup ErrorKinds] :
            retry = RetryStrategy(max_retries, base_delay, op)

\* every RetryStrategy(max_retries, base_delay) the constructor accepts
InitRetryAny ==
    /\ HandlerOff
    /\ monitoring = MonitoringService
    /\ now = 0
    /\ ops = 0
    /\ audit = <<>>
    /\ \E max_retries \in 0..MaxRetriesBound, base_delay \in 1..MaxBaseDelay :
         \E op \in [1..max_retries -> {"ok"} \cup ErrorKinds] :
            retry = RetryStrategy(max_retries, base_delay, op)

NextRetry == ExecuteAttempt \/ ExecuteExhausted

SpecRetryAny == InitRetryAny /\ [][NextRetry]_vars

SpecRetry == InitRetry /\ [][NextRetry]_vars

(***************************************************************************)
(* Paired runs: after a run with a connected sink has returned, the same   *)
(* function is handled again with a sink that raises on every call and     *)
(* with the collaborators answering as they did in the first run.          *)
(***************************************************************************)
Outcome(id) ==
    LET tracked == id \in DOMAIN monitoring.deployments
    IN  [result |-> result,
         tracked |-> tracked,
         status |-> IF tracked THEN monitoring.deployments[id].status
                    ELSE "none",
         stages |-> IF tracked THEN monitoring.deployments[id].stages
                    ELSE <<>>,
         errors |-> IF tracked THEN monitoring.deployments[id].errors
                    ELSE <<>>]

StartSecond ==
    /\ phase = 1
    /\ pc = "done"
    /\ fn \in {"clone_and_analyze_repo", "deploy_to_cloudrun"}
    /\ first' = Outcome(1)
    /\ phase' = 2
    /\ pc' = handlers[fn]
    /\ sink' = "disconnected"
    /\ sub' = 1
    /\ exc' = "none"
    /\ result' = "none"
    /\ calls' = <<>>
    /\ scan' = [secure |-> TRUE, issues |-> 0]
    /\ warned' = 0
    /\ analysis' = AnalysisIdle
    /\ build' = BuildIdle
    /\ tracker' = DeploymentProgressTracker(None)
    /\ lastEmit' = NoEmit
    /\ UNCHANGED <<fn, gcloud, emitted, delivered, tape, mvars, retry,
                   cancel_requested, svars>>

InitPair == Init /\ sink = "connected"

NextPair == HandlerNext \/ StartSecond

SpecPair == InitPair /\ [][NextPair]_vars

(***************************************************************************)
(* The pipeline under the scheduling of the event loop: a handler that can *)
(* take a step takes it.  Nothing obliges the client to disconnect.        *)
(***************************************************************************)
SpecFair == Spec /\ WF_vars(HandlerNext)

(***************************************************************************)
(* The metrics specification: callers of one MonitoringService, their      *)
(* calls interleaved in every order, the clock ticking between calls.      *)
(***************************************************************************)
RunIds == 1..MaxRuns

StageNames == {"validation", "build", "deploy"}

MStartDeployment ==
    /\ ops < MaxOps
    /\ \E id \in RunIds :
         /\ monitoring' = start_deployment(monitoring, id, now)
         /\ NoteStart(id)
    /\ ops' = ops + 1
    /\ UNCHANGED <<hvars, tvars, now, pvars, retry, cancel_requested, svars>>

MRecordStage ==
    /\ ops < MaxOps
    /\ \E id \in RunIds, stage \in StageNames, status \in {"success", "failed"} :
         monitoring' = record_stage(monitoring, id, stage, status,
                                    IF id \in DOMAIN monitoring.deployments
                                    THEN now - monitoring.deployments[id].start_time
                                    ELSE 0)
    /\ ops' = ops + 1
    /\ UNCHANGED <<hvars, tvars, now, audit, pvars, retry, cancel_requested, svars>>

MRecordError ==
    /\ ops < MaxOps
    /\ \E id \in RunIds, error \in {"env", "security"} :
         monitoring' = record_error(monitoring, id, error)
    /\ ops' = ops + 1
    /\ UNCHANGED <<hvars, tvars, now, audit, pvars, retry, cancel_requested, svars>>

MCompleteDeployment ==
    /\ ops < MaxOps
    /\ \E id \in RunIds, status \in {"success", "failed"} :
         /\ monitoring' = complete_deployment(monitoring, id, status, now)
         /\ NoteComplete(id)
    /\ ops' = ops + 1
    /\ UNCHANGED <<hvars, tvars, now, pvars, retry, cancel_requested, svars>>

Tick ==
    /\ now < MaxTime
    /\ now' = now + 1
    /\ UNCHANGED <<hvars, tvars, monitoring, ops, audit, pvars, retry,
                   cancel_requested, svars>>

InitMetrics ==
    /\ HandlerOff
    /\ monitoring = MonitoringService
    /\ now = 0
    /\ ops = 0
    /\ audit = <<>>
    /\ retry = RetryIdle

NextMetrics ==
    \/ MStartDeployment
    \/ MRecordStage
    \/ MRecordError
    \/ MCompleteDeployment
    \/ Tick

SpecMetrics == InitMetrics /\ [][NextMetrics]_vars

(***************************************************************************)
(* Properties                                                              *)
(***************************************************************************)
Before(i, op, outcome) ==
    \E j \in 1..(i - 1) : calls[j] = Call(op, outcome)

\* C1: a run never proceeds past a failed stage.  In the deployment run
\* build_image is invoked only after validate_service_name and
\* validate_dockerfile passed, and deploy_to_cloudrun is invoked only after
\* build_image reported success; in the analysis run analyze_and_generate is
\* invoked only after clone_repository reported success.
C1_NeverPastFailedStage ==
    \A i \in 1..Len(calls) :
        /\ calls[i].op = "build_image" =>
              /\ Before(i, "validate_service_name", "ok")
              /\ Before(i, "validate_dockerfile", "ok")
        /\ calls[i].op = "deploy_to_cloudrun" => Before(i, "build_image", "ok")
        /\ calls[i].op = "analyze_and_generate" =>
              Before(i, "clone_repository", "ok")

\* a deployment run whose build succeeded has reached the deploy call
C1_Witness ==
    /\ \E i \in 1..Len(calls) : calls[i].op = "deploy_to_cloudrun"
    /\ \E i \in 1..Len(calls) : calls[i] = Call("build_image", "ok")

\* C2: the progress carried by the successive events of one run's tracker
\* is non-decreasing over the whole event sequence of the run.
C2_ProgressNonDecreasing ==
    \A i \in 1..Len(emitted) : \A j \in i..Len(emitted) :
        emitted[i].deployment_id = emitted[j].deployment_id =>
            emitted[i].progress <= emitted[j].progress

InOrderBefore(i, ops_) ==
    \E f \in [1..Len(ops_) -> 1..(i - 1)] :
        /\ \A k \in 1..Len(ops_) : calls[f[k]] = Call(ops_[k], "ok")
        /\ \A k \in 1..(Len(ops_) - 1) : f[k] < f[k + 1]

\* C3: stage transitions are strictly sequential and forward-only: a run
\* enters image build only after repository access, code analysis, spec
\* generation and security scan have completed, in that order, in the same
\* run.
C3_StagesSequentialSameRun ==
    \A i \in 1..Len(calls) :
        calls[i].op = "build_image" =>
            InOrderBefore(i, <<"clone_repository", "analyze_and_generate",
                               "save_dockerfile", "scan_dockerfile_security">>)

\* the errors `except Exception` sees as a failure of the operation
FailureKinds == {"transient", "config", "backend"}

FailsThenSucceeds(k) ==
    /\ k < retry.max_retries
    /\ \A i \in 1..k : retry.op[i] \in FailureKinds
    /\ retry.op[k + 1] = "ok"

\* C4: for an operation that fails k times and then succeeds, with
\* k < max_retries, execute returns the successful result, having invoked
\* the operation k + 1 times and logged exactly k retry attempts.
C4_RetryThenSuccess ==
    \A k \in 0..MaxRetriesBound :
        (FailsThenSucceeds(k) /\ retry.state # "running") =>
            /\ retry.state = "returned"
            /\ retry.invocations = k + 1
            /\ Len(retry.logged) = k

\* max_retries - 1 failures, then the success is returned
C4_Witness ==
    /\ retry.max_retries = MaxRetriesBound
    /\ FailsThenSucceeds(MaxRetriesBound - 1)
    /\ retry.state = "returned"
    /\ Len(retry.logged) = MaxRetriesBound - 1

AlwaysFails == \A i \in 1..Len(retry.op) : retry.op[i] \in FailureKinds

\* C5: for an operation that always fails, execute invokes it exactly
\* max_retries times and then raises the operation's own (last) error.
C5_RetryExhaustion ==
    (HandlerOff /\ AlwaysFails) =>
        /\ retry.invocations <= retry.max_retries
        /\ retry.state # "returned"
        /\ retry.state = "raised" =>
              /\ retry.invocations = retry.max_retries
              /\ retry.raised = [kind |-> retry.op[retry.max_retries],
                                 at |-> retry.max_retries]

\* three failures out of three attempts, and the error is out
C5_Witness ==
    /\ HandlerOff
    /\ AlwaysFails
    /\ retry.max_retries = MaxRetriesBound
    /\ retry.state = "raised"
    /\ retry.invocations = MaxRetriesBound

\* C6: only transient I/O errors are retried: after the operation raised a
\* configuration error, a backend error or a cancellation it is not invoked
\* again.
C6_OnlyTransientRetried ==
    \A i \in 1..retry.invocations :
        retry.op[i] \in {"config", "backend", "cancelled"} =>
            retry.invocations = i

\* C7: emit never raises: with the sink absent, connected or raising, emit
\* and the helpers built on it return to the caller; when the sink raises
\* the event is dropped and no handler sees an exception from emit.
C7_EmitNeverRaises ==
    /\ lastEmit.behaviour \in {"absent", "ok", "raise"} =>
          lastEmit.outcome = "returned"
    /\ lastEmit.behaviour = "raise" => Len(delivered) < Len(emitted)
    /\ exc # "emit"

\* the sink raised inside start_security_scan and the handler went on to the
\* scan
C7_Witness ==
    /\ lastEmit = [behaviour |-> "raise", outcome |-> "returned"]
    /\ pc = "d_scan"
    /\ Len(delivered) < Len(emitted)

\* C8: the outcome of a run does not depend on the sink: with the same
\* backend results a run whose sink raises on every emit ends with the same
\* result, terminal status, recorded stages and errors as the run with a
\* working sink, and no emission exception reaches the handler.
C8_OutcomeIndependentOfSink ==
    /\ phase = 2 => exc # "emit"
    /\ (phase = 2 /\ pc = "done") =>
          /\ Outcome(2) = first
          /\ tape = <<>>

\* both runs of a deployment that got as far as the build are over; the
\* first delivered its events, the second none
C8_Witness ==
    /\ phase = 2
    /\ pc = "done"
    /\ fn = "deploy_to_cloudrun"
    /\ \E i \in 1..Len(calls) : calls[i].op = "build_image"
    /\ first.tracked
    /\ delivered # <<>>
    /\ \E i \in 1..Len(emitted) : emitted[i].deployment_id = 2
    /\ \A i \in 1..Len(delivered) : delivered[i].deployment_id = 1

\* C9: a stalled sink never stalls the pipeline: when the callback does not
\* return from an emit, the run still reaches a terminal status.
C9_StalledSinkTerminates == (sink = "stalled") ~> (pc = "done")

RECURSIVE SumDurations(_)
SumDurations(ids) ==
    IF ids = {} THEN 0
    ELSE LET id == CHOOSE x \in ids : TRUE
         IN  get_duration(monitoring.deployments[id], now)
               + SumDurations(ids \ {id})

\* every tracked run was started once and completed once
AllRunsCompletedOnce ==
    LET ids == DOMAIN monitoring.deployments
        m == monitoring.metrics
    IN  /\ ids # {}
        /\ m.total_deployments = Cardinality(ids)
        /\ m.successful_deployments + m.failed_deployments = Cardinality(ids)
        /\ \A id \in ids : monitoring.deployments[id].status # "in_progress"

\* C10: under every interleaving of the start_deployment and
\* complete_deployment calls of N runs, once all N have completed,
\* avg_deployment_time is the arithmetic mean of the N run durations.
C10_AvgIsMean ==
    AllRunsCompletedOnce =>
        monitoring.metrics.avg_deployment_time =
            Frac(SumDurations(DOMAIN monitoring.deployments),
                 Cardinality(DOMAIN monitoring.deployments))

\* every run id was started once and has, since, been completed once
StartedAndCompletedOnce ==
    /\ DOMAIN audit # {}
    /\ \A id \in DOMAIN audit :
          audit[id].started = 1 /\ audit[id].completed = 1

Successes ==
    Cardinality({id \in DOMAIN audit :
                    monitoring.deployments[id].status = "success"})

\* C11: after N runs have been started and completed, S of them with status
\* success, error_rate is (N-S)/N, failed_deployments is N-S and
\* successful_deployments is S.
C11_ErrorRate ==
    StartedAndCompletedOnce =>
        LET N == Cardinality(DOMAIN audit)
            S == Successes
        IN  /\ monitoring.metrics.error_rate = Frac(N - S, N)
            /\ monitoring.metrics.failed_deployments = N - S
            /\ monitoring.metrics.successful_deployments = S

\* two overlapping runs, one completed with success and one with failed
C11_Witness ==
    /\ StartedAndCompletedOnce
    /\ Cardinality(DOMAIN audit) = 2
    /\ Successes = 1
    /\ monitoring.metrics.error_rate = Frac(1, 2)

\* C12: a run record is immutable once its status is terminal: after the
\* first complete_deployment of a run no record_stage, record_error or
\* complete_deployment call changes its status, end time, stages or errors,
\* and the terminal status is written once.
C12_TerminalRecordImmutable ==
    \A id \in DOMAIN audit :
        audit[id].completed >= 1 =>
            /\ audit[id].completed = 1
            /\ monitoring.deployments[id] = audit[id].frozen[1]

\* The place of a recorded stage, and of the stage a collaborator call
\* belongs to, in the order of the deployment run: validation, the Dockerfile
\* check and security scan, image build, service deploy.
StageRank(stage) ==
    CASE stage = "validation" -> 1
      [] stage = "build" -> 3
      [] stage = "deploy" -> 4

CallRank(op) ==
    CASE op \in {"validate_service_name", "validate_env_vars",
                 "get_optimal_config"} -> 1
      [] op \in {"validate_dockerfile", "scan_dockerfile_security"} -> 2
      [] op = "build_image" -> 3
      [] op = "deploy_to_cloudrun" -> 4

RunStages(id) ==
    IF id \in DOMAIN monitoring.deployments
    THEN monitoring.deployments[id].stages ELSE <<>>

\* C13: the stage entries recorded for a run appear in the fixed stage
\* order, and no entry is recorded for a stage that comes after the first
\* stage that failed fatally.
C13_StagesInOrderUpToFailure ==
    LET s == RunStages(RunId)
    IN  /\ \A i \in 1..Len(s) : \A j \in (i + 1)..Len(s) :
              StageRank(s[i].stage) < StageRank(s[j].stage)
        /\ \A k \in 1..Len(calls) :
              calls[k].outcome \in {"failed", "raised"} =>
                  \A i \in 1..Len(s) :
                      StageRank(s[i].stage) <= CallRank(calls[k].op)

\* a run that failed in the build has the entries validation, build
C13_Witness ==
    /\ pc = "done"
    /\ \E k \in 1..Len(calls) : calls[k] = Call("build_image", "failed")
    /\ Len(RunStages(RunId)) = 2
    /\ RunStages(RunId)[1].stage = "validation"
    /\ RunStages(RunId)[2].stage = "build"

RunStatus(id) ==
    IF id \in DOMAIN monitoring.deployments
    THEN monitoring.deployments[id].status ELSE "none"

DeployRunOver == fn = "deploy_to_cloudrun" /\ pc = "done"

\* every backend asked before the deploy call answered with success, the scan
\* found nothing, and the deploy call was made
EveryStageSucceeds ==
    /\ \E k \in 1..Len(calls) : calls[k].op = "deploy_to_cloudrun"
    /\ \A k \in 1..Len(calls) :
          calls[k].op # "deploy_to_cloudrun" => calls[k].outcome = "ok"
    /\ scan = [secure |-> TRUE, issues |-> 0]

\* C14: if every stage succeeds, the run ends with status success, six stage
\* entries are recorded for it and the last progress value emitted is 100.
C14_AllStagesSucceed ==
    (DeployRunOver /\ EveryStageSucceeds) =>
        /\ RunStatus(RunId) = "success"
        /\ Len(RunStages(RunId)) = 6
        /\ emitted # <<>> => emitted[Len(emitted)].progress = 100

BuildFailedRun ==
    /\ DeployRunOver
    /\ \E k \in 1..Len(calls) : calls[k] = Call("build_image", "failed")

\* C15: if the build backend reports failure, the run ends with status
\* failed, the error reported names the image-build stage, no service-deploy
\* entry is recorded (the deploy backend is not called), and the aggregate
\* failure count has gone up by exactly one.
C15_BuildFailure ==
    BuildFailedRun =>
        /\ result = "error"
        /\ RunStatus(RunId) = "failed"
        /\ sink # "absent" =>
              emitted[Len(emitted)] =
                  [deployment_id |-> RunId, message |-> "error",
                   stage |-> "container_build",
                   progress |-> tracker.current_progress]
        /\ \A i \in 1..Len(RunStages(RunId)) :
              RunStages(RunId)[i].stage # "deploy"
        /\ \A k \in 1..Len(calls) : calls[k].op # "deploy_to_cloudrun"
        /\ monitoring.metrics.failed_deployments = 1
        /\ monitoring.metrics.successful_deployments = 0
        /\ audit[RunId].completed = 1

\* a failed build, reported to a connected client
C15_Witness ==
    /\ BuildFailedRun
    /\ sink = "connected"
    /\ delivered # <<>>
    /\ delivered[Len(delivered)].message = "error"
    /\ delivered[Len(delivered)].stage = "container_build"
    /\ monitoring.metrics.failed_deployments = 1

\* the handler returned an error for a run it had started to track
FatalFailure ==
    /\ DeployRunOver
    /\ result = "error"
    /\ RunId \in DOMAIN monitoring.deployments

\* C16: on every fatal failure of a run an error progress event naming the
\* failing stage is emitted before the handler returns.
C16_ErrorEventOnFatalFailure ==
    (FatalFailure /\ sink # "absent") =>
        \E i \in 1..Len(emitted) :
            /\ emitted[i].deployment_id = RunId
            /\ emitted[i].message = "error"

\* what the recorder's error list would hold for the error that failed a run
FatalErrorMessages ==
    {"invalid_service_name", "invalid_dockerfile", "build_failed",
     "deploy_failed", "exception"}

\* C17: every fatal failure is recorded through the metrics recorder:
\* whenever a run's status is failed, its error list contains the message of
\* the error that failed it.
C17_FatalErrorRecorded ==
    \A id \in DOMAIN monitoring.deployments :
        monitoring.deployments[id].status = "failed" =>
            \E i \in 1..Len(monitoring.deployments[id].errors) :
                monitoring.deployments[id].errors[i] \in FatalErrorMessages

\* C18: whenever a run fails, the returned result contains the failing stage
\* name, a human-readable message and the warnings accumulated by the
\* earlier stages of the run.
C18_FailureResultCarriesWarnings ==
    (FatalFailure /\ warned > 0) =>
        /\ "content" \in ResultKeys(result)
        /\ ResultKeys(result) \cap {"stage", "failed_stage"} # {}
        /\ ResultKeys(result)
              \cap {"warnings", "security_scan", "errors"} # {}

\* C19: no error escapes a run: when a backend or collaborator raised, the
\* handler returns a structured result and the run is marked failed.
C19_ErrorsCaughtAndRunFailed ==
    (pc = "done" /\ exc # "none"
        /\ fn \in {"clone_and_analyze_repo", "deploy_to_cloudrun"}) =>
        /\ result = "error"
        /\ RunStatus(RunId) = "failed"

SecurityErrors(id) ==
    Cardinality({i \in 1..Len(monitoring.deployments[id].errors) :
                    monitoring.deployments[id].errors[i] = "security"})

ScanReturned ==
    \E k \in 1..Len(calls) : calls[k] = Call("scan_dockerfile_security", "ok")

\* C20: security-scan findings are warnings only: whatever the number of
\* issues, the run is not aborted and its status is not changed by them (up
\* to three are put on the error list), and the next stage started is the
\* image build.
C20_FindingsAreWarnings ==
    /\ pc \in {"d_security_checks", "d_complete_security_scan", "d_warn",
               "d_start_container_build"} =>
          /\ RunStatus(RunId) = "in_progress"
          /\ result = "none"
          /\ exc = "none"
    /\ \A k \in 1..(Len(calls) - 1) :
          calls[k].op = "scan_dockerfile_security" =>
              calls[k + 1].op = "build_image"
    /\ (ScanReturned /\ pc = "done") =>
          \E k \in 1..Len(calls) : calls[k].op = "build_image"
    /\ (ScanReturned /\ pc \in {"d_start_container_build", "done"}) =>
          SecurityErrors(RunId) =
              IF scan.secure THEN 0
              ELSE IF scan.issues < 3 THEN scan.issues ELSE 3

\* an insecure Dockerfile with the most issues, and the build was started
C20_Witness ==
    /\ scan = [secure |-> FALSE, issues |-> MaxIssues]
    /\ ScanReturned
    /\ \E k \in 1..Len(calls) : calls[k].op = "build_image"
    /\ SecurityErrors(RunId) = 3
    /\ pc = "b_spawn"
    /\ RunStatus(RunId) = "in_progress"

\* C21: Dockerfile generation is never fatal by itself: once the project has
\* been analysed and no template matches, the handler never takes the fatal
\* exit of the analysis stage, whatever the custom generator does.
C21_FallbackNeverFatal ==
    ~(pc = "a_analysis_failed" /\ analysis.source = "custom")

\* C22: cooperative cancellation: when cancellation has been requested while
\* the deployment handler stands between two stages, the handler's next step
\* starts no stage: it ends the run with terminal status "cancelled".
C22_CooperativeCancellation ==
    [][(cancel_requested /\ pc \in StageBoundaries /\ pc' # pc) =>
          (pc' = "done" /\ RunStatus(RunId)' = "cancelled")]_vars

\* the six stages of the progress scale, in pipeline order
BandRank(stage) ==
    CASE stage = "repo_access" -> 1
      [] stage = "code_analysis" -> 2
      [] stage = "dockerfile_generation" -> 3
      [] stage = "security_scan" -> 4
      [] stage = "container_build" -> 5
      [] stage = "cloud_deployment" -> 6

\* C23: the progress values of the six stages lie in strictly increasing,
\* non-overlapping bands: whatever the arguments, every value a helper of one
\* stage passes to emit is lower than every value a helper of the next stage
\* passes.
C23_ProgressBandsDisjoint ==
    \A k1 \in 1..Len(calls), k2 \in 1..Len(calls) :
        \A i1 \in 1..Len(calls[k1].outcome), i2 \in 1..Len(calls[k2].outcome) :
            LET a == calls[k1].outcome[i1]
                b == calls[k2].outcome[i2]
            IN  (/\ a.progress # None
                 /\ b.progress # None
                 /\ BandRank(a.stage) + 1 = BandRank(b.stage))
                    => a.progress < b.progress

\* C24: build output is translated into monotonic progress: whatever the
\* order of the markers in the build output, the progress values build_image
\* passes to its progress callback never decrease.
C24_BuildProgressMonotonic ==
    \A i \in 1..Len(build.passed), j \in 1..Len(build.passed) :
        i <= j => build.passed[i] <= build.passed[j]

\* s is t with some elements left out, the others in the order of t
RECURSIVE IsSubsequence(_, _)
IsSubsequence(s, t) ==
    IF s = <<>> THEN TRUE
    ELSE IF t = <<>> THEN FALSE
    ELSE IF Head(s) = Head(t) THEN IsSubsequence(Tail(s), Tail(t))
    ELSE IsSubsequence(s, Tail(t))

\* C25: the sink receives the events of a run in the order in which the run
\* emitted them: what the sink has received is what was emitted, some events
\* possibly missing, in emit order; and between two ordinary events of one
\* run the stage of the earlier one is not a later stage of the pipeline.
C25_DeliveredInEmitOrder ==
    /\ IsSubsequence(delivered, emitted)
    /\ \A i \in 1..Len(delivered), j \in 1..Len(delivered) :
          (/\ i < j
           /\ delivered[i].deployment_id = delivered[j].deployment_id
           /\ delivered[i].message = "info"
           /\ delivered[j].message = "info")
              => BandRank(delivered[i].stage) <= BandRank(delivered[j].stage)

\* the sink received events of two stages and then went away, so that a
\* later event of the run never reached it
C25_Witness ==
    /\ Len(delivered) >= 2
    /\ Len(emitted) > Len(delivered)
    /\ delivered[1].stage # delivered[Len(delivered)].stage
    /\ emitted[Len(emitted)].deployment_id = delivered[1].deployment_id

\* the step is a complete_deployment call on a tracked run
CompleteStep ==
    \E d \in DOMAIN audit :
        /\ d \in DOMAIN audit'
        /\ audit'[d].completed = audit[d].completed + 1

\* C26: complete_deployment is the only mutator of the aggregate counters: a
\* start_deployment, record_stage or record_error call leaves
\* total_deployments, successful_deployments, failed_deployments,
\* avg_deployment_time and error_rate as they were.
C26_OnlyCompleteMutatesCounters ==
    [][~CompleteStep => monitoring'.metrics = monitoring.metrics]_vars

\* C27: stage results are append-only: a call that is neither a start nor a
\* completion of a run (record_stage, record_error) leaves every stored stage
\* entry of every run in its place and unchanged.
C27_StagesAppendOnly ==
    [][audit' = audit =>
          \A d \in DOMAIN monitoring.deployments :
              \A i \in 1..Len(monitoring.deployments[d].stages) :
                  /\ d \in DOMAIN monitoring'.deployments
                  /\ i <= Len(monitoring'.deployments[d].stages)
                  /\ monitoring'.deployments[d].stages[i] =
                        monitoring.deployments[d].stages[i]]_vars

\* git clone attempts of the run that failed before the k-th call
FailedClonesBefore(k) ==
    Cardinality({j \in 1..(k - 1) : calls[j] = Call("git_clone", "transient")})

\* C28: with maxRetries = 3, repository access that fails transiently twice
\* is tried a third time, and if that attempt succeeds the run proceeds: the
\* clone is not given up, and the run not ended, before three attempts have
\* failed.
C28_TransientCloneRetried ==
    \A k \in 1..Len(calls) :
        calls[k] = Call("clone_repository", "failed") =>
            FailedClonesBefore(k) >= DefaultMaxRetries

StageBackend(stage) ==
    CASE stage = "build" -> "build_image"
      [] stage = "deploy" -> "deploy_to_cloudrun"
      [] OTHER -> "none"

\* C30: a stage entry has status success only if the stage's backend
\* reported success: when build_image or deploy_to_cloudrun has reported
\* failure, the 'build' respectively 'deploy' entry of the run does not say
\* success.
C30_SuccessEntryMeansBackendSuccess ==
    \A i \in 1..Len(RunStages(RunId)) :
        LET entry == RunStages(RunId)[i]
        IN  \A k \in 1..Len(calls) :
                (/\ calls[k].op = StageBackend(entry.stage)
                 /\ calls[k].outcome \in {"failed", "raised"})
                    => entry.status # "success"

\* C31: in every state of the metrics recorder the completed runs counted
\* are not more than the runs started, and no run id has been counted more
\* than once as a success or a failure since it was started, whatever
\* start_deployment and complete_deployment calls were made.
C31_CompletionsWithinTotal ==
    /\ monitoring.metrics.successful_deployments
         + monitoring.metrics.failed_deployments
            <= monitoring.metrics.total_deployments
    /\ \A d \in DOMAIN audit : audit[d].completed <= 1

\* C32: no run that ends with status failed has emitted a progress event
\* with progress 100: an event carrying 100 belongs to a run that did not
\* fail.
C32_NoFullProgressOnFailedRun ==
    \A k \in 1..Len(emitted) :
        emitted[k].progress = 100 =>
            RunStatus(emitted[k].deployment_id) # "failed"

\* a deployment run that built its image, got as far as the deploy call,
\* emitting 80 and 90 on the way, and ended failed
C32_Witness ==
    /\ DeployRunOver
    /\ RunStatus(RunId) = "failed"
    /\ \E k \in 1..Len(calls) : calls[k] = Call("build_image", "ok")
    /\ \E k \in 1..Len(emitted) :
          emitted[k].deployment_id = RunId /\ emitted[k].progress = 80
    /\ \E k \in 1..Len(emitted) :
          emitted[k].deployment_id = RunId /\ emitted[k].progress = 90

\* C33: every run registered with start_deployment reaches a terminal
\* status, success or failed, provided every sink call returns or raises:
\* while the run is in_progress and no sink call is pending the handler has
\* a next step to take, and once the handler has returned, whichever exit
\* it took, the run is not in_progress.
C33_RegisteredRunTerminates ==
    /\ (RunStatus(RunId) = "in_progress" /\ sink # "stalled") =>
          (pc # "done" /\ ENABLED HandlerNext)
    /\ (DeployRunOver /\ RunId \in DOMAIN monitoring.deployments) =>
          RunStatus(RunId) \in {"success", "failed"}

\* the handler has returned through the except clause, after the deploy call
\* raised, and the run it registered is failed
C33_Witness ==
    /\ DeployRunOver
    /\ exc # "none"
    /\ sink # "stalled"
    /\ \E k \in 1..Len(calls) : calls[k].op = "deploy_to_cloudrun"
    /\ RunStatus(RunId) = "failed"

\* ---------------------------------------------------------------------
\* Two sessions on the one OrchestratorAgent of app.py
\* ---------------------------------------------------------------------
SessionsFrame == UNCHANGED <<hvars, tvars, mvars, pvars, retry, cancel_requested, active_connections, connections>>

\* self.project_context.get('framework', 'unknown')
get_framework(context) ==
    IF context.framework = "unset" THEN "unknown" ELSE context.framework

\* _handle_clone_and_analyze reaching its success path for a request of
\* session s: the framework goes into the orchestrator's own dict
SessionAnalyze(s, f) ==
    /\ sessions[s].requests < MaxRequests
    /\ project_context' = [project_context EXCEPT !.framework = f]
    /\ sessions' = [sessions EXCEPT ![s].analysed = f,
                                    ![s].requests = @ + 1]
    /\ SessionsFrame

\* _handle_deploy_to_cloudrun for a request of session s choosing its
\* resource configuration
SessionDeploy(s) ==
    /\ sessions[s].requests < MaxRequests
    /\ sessions' = [sessions EXCEPT ![s].framework = get_framework(project_context),
                                    ![s].own = sessions[s].analysed,
                                    ![s].requests = @ + 1]
    /\ UNCHANGED project_context
    /\ SessionsFrame

InitSessions == InitMetrics

NextSessions ==
    \/ \E s \in SessionIds, f \in Frameworks : SessionAnalyze(s, f)
    \/ \E s \in SessionIds : SessionDeploy(s)

SpecSessions == InitSessions /\ [][NextSessions]_vars

\* C34: a session that has analysed a repository and then deploys reads,
\* for its resource configuration, the framework its own analysis stored,
\* whatever the other sessions did in between.
C34_SessionReadsOwnFramework ==
    \A s \in SessionIds :
        (sessions[s].own # "unset" /\ sessions[s].framework # "unset") =>
            sessions[s].framework = sessions[s].own

\* C35: every raw percentage build_image hands to its callback lies in
\* 0..100, whatever line comes next keeps it there, the progress the tracker
\* computes for it lies in 65..80, and so does the progress of every
\* container_build event that was emitted.
C35_BuildProgressWithinBand ==
    /\ \A kind \in LineKinds : LineProgress(kind, build.progress) \in 0..100
    /\ \A k \in 1..Len(build.passed) :
          /\ build.passed[k] \in 0..100
          /\ \A j \in 1..Len(build_progress(build.passed[k])) :
                build_progress(build.passed[k])[j].progress \in 65..80
    /\ \A k \in 1..Len(emitted) :
          emitted[k].stage = "container_build" => emitted[k].progress \in 65..80

\* a build whose output moved the percentage, then exited with 0: the
\* callback saw a streamed value and the final 100, emitted as 80
C35_Witness ==
    /\ build.outcome = "success"
    /\ Len(build.passed) >= 2
    /\ \E k \in 1..Len(build.passed) : build.passed[k] \in 11..99
    /\ build.passed[Len(build.passed)] = 100
    /\ \E k \in 1..Len(emitted) :
          emitted[k].stage = "container_build" /\ emitted[k].progress = 80

\* C36: once execute is over, whatever max_retries was, the operation has
\* been invoked at least once, and an error execute raised is the error one
\* of those invocations raised.
C36_InvokedAndOwnError ==
    retry.state \in {"returned", "raised"} =>
        /\ retry.invocations >= 1
        /\ retry.state = "raised" =>
              /\ retry.raised.at \in 1..retry.invocations
              /\ retry.op[retry.raised.at] = retry.raised.kind

\* C37: for a run id start_deployment was never called with, record_stage,
\* record_error and complete_deployment return the service as it was (every
\* record and every counter), and get_deployment_metrics returns None.
C37_UnknownRunIsNoOp ==
    \A id \in RunIds \ DOMAIN monitoring.deployments :
        /\ \A stage \in StageNames, status \in {"success", "failed"} :
              record_stage(monitoring, id, stage, status, 0) = monitoring
        /\ \A error \in {"env", "security"} :
              record_error(monitoring, id, error) = monitoring
        /\ \A status \in {"success", "failed"} :
              complete_deployment(monitoring, id, status, now) = monitoring
        /\ get_deployment_metrics(monitoring, id) = None

\* one run is tracked, the other id is unknown, and calls made after the
\* start left the tracked run's record and the counters as the start made them
C37_Witness ==
    /\ ops >= 3
    /\ DOMAIN monitoring.deployments = {1}
    /\ monitoring = start_deployment(MonitoringService, 1, monitoring.deployments[1].start_time)

\* ---------------------------------------------------------------------
\* websocket_endpoint: one coroutine per connection, one shared table
\* ---------------------------------------------------------------------
SocketsFrame == UNCHANGED <<hvars, tvars, mvars, pvars, retry, cancel_requested, project_context, sessions>>

\* data.get('type') of a client message; a 'message' with or without text
MessageTypes == {"init", "ping", "message", "empty_message", "other"}

\* active_connections[session_id] = websocket
dict_set(d, key, value) ==
    [k \in DOMAIN d \cup {key} |-> IF k = key THEN value ELSE d[k]]

\* del active_connections[session_id]
dict_del(d, key) == [k \in DOMAIN d \ {key} |-> d[k]]

\* an endpoint that takes whatever comes first as the init message
accepts_any(message_type) == TRUE

\* the negation of `if message_type != 'init'`
accepts_init(message_type) == message_type = "init"

\* await websocket.accept()
WebsocketAccept(c) ==
    /\ connections[c].state = "none"
    /\ connections' = [connections EXCEPT ![c].state = "accepted"]
    /\ UNCHANGED active_connections
    /\ SocketsFrame

\* the first receive_json: anything but init closes the connection with
\* code 1008 and returns; init sets session_id and stores the websocket
ReceiveFirst(c) ==
    /\ connections[c].state = "accepted"
    /\ \E message_type \in MessageTypes, session_id \in SessionIds :
         IF accepts_init(message_type)
         THEN /\ connections' = [connections EXCEPT
                                    ![c].state = "open",
                                    ![c].first = message_type,
                                    ![c].session_id = session_id,
                                    ![c].registered = TRUE]
              /\ active_connections' = dict_set(active_connections, session_id, c)
         ELSE /\ connections' = [connections EXCEPT
                                    ![c].state = "closed",
                                    ![c].first = message_type]
              /\ UNCHANGED active_connections
    /\ SocketsFrame

\* one turn of `while True`: a ping is answered, a message with text goes to
\* orchestrator.process_message, anything else is dropped
ReceiveMessage(c) ==
    /\ connections[c].state = "open"
    /\ connections[c].received < MaxMessages
    /\ \E msg_type \in MessageTypes :
         connections' = [connections EXCEPT
                            ![c].received = @ + 1,
                            ![c].processed =
                                IF msg_type = "message" THEN @ + 1 ELSE @]
    /\ UNCHANGED active_connections
    /\ SocketsFrame

\* receive_json or send_json raises: both except clauses delete the entry
\* stored under session_id when there is one, whichever websocket it holds
WebsocketDisconnect(c) ==
    /\ connections[c].state \in {"accepted", "open"}
    /\ connections' = [connections EXCEPT ![c].state = "closed"]
    /\ active_connections' =
          IF connections[c].session_id # 0
             /\ connections[c].session_id \in DOMAIN active_connections
          THEN dict_del(active_connections, connections[c].session_id)
          ELSE active_connections
    /\ SocketsFrame

InitSockets == InitMetrics

NextSockets ==
    \/ \E c \in ConnectionIds : WebsocketAccept(c)
    \/ \E c \in ConnectionIds : ReceiveFirst(c)
    \/ \E c \in ConnectionIds : ReceiveMessage(c)
    \/ \E c \in ConnectionIds : WebsocketDisconnect(c)

SpecSockets == InitSockets /\ [][NextSockets]_vars

\* C38: every connection that was initialised and is still open has an entry
\* in active_connections under its session id, and the websocket stored there
\* is open.
C38_OpenConnectionsRegistered ==
    \A c \in ConnectionIds :
        connections[c].state = "open" =>
            /\ connections[c].session_id \in DOMAIN active_connections
            /\ connections[active_connections[connections[c].session_id]].state = "open"

\* C39: a connection gives a message to the orchestrator only after its
\* first message was an init; a connection whose first message was anything
\* else is closed, was never stored in active_connections, is not stored
\* there now, and has had no message read or processed.
C39_InitBeforeChat ==
    \A c \in ConnectionIds :
        /\ connections[c].processed > 0 => connections[c].first = "init"
        /\ connections[c].first \notin {"none", "init"} =>
              /\ connections[c].state = "closed"
              /\ ~connections[c].registered
              /\ connections[c].session_id = 0
              /\ \A s \in DOMAIN active_connections : active_connections[s] # c
              /\ connections[c].received = 0
              /\ connections[c].processed = 0

\* one connection was turned away for starting with a chat message while
\* another, initialised, has had a chat message processed
C39_Witness ==
    \E c, d \in ConnectionIds :
        /\ connections[c].first = "message"
        /\ connections[c].state = "closed"
        /\ connections[d].first = "init"
        /\ connections[d].processed > 0
=============================================================================
